---- MODULE Spec2Model ----
(***************************************************************************)
(* Verification model of the HWP text-extraction service (text_parser).    *)
(*                                                                         *)
(* The module holds one state machine per subsystem; every subsystem has   *)
(* its own variables, its own Init/Next and its own specification, and     *)
(* leaves the variables of the other subsystems untouched:                 *)
(*   SpecAuth   API-key management endpoints and key authentication        *)
(*   SpecRate   RateLimiter (sliding window) and its background sweep      *)
(*   SpecConc   ConcurrencyLimitMiddleware                                 *)
(*   SpecStream streaming an upload to a temporary file                    *)
(*   SpecParse  EnhancedHWPParser.parse, the strategy dispatcher           *)
(*   SpecFrame  the two HWP record-framing loops                           *)
(*   SpecKey    CacheManager._generate_cache_key                           *)
(*   SpecTtl    CacheManager._calculate_ttl                                *)
(*   SpecCache  CacheManager over a store that may fail                    *)
(*   SpecWrap   with_cache and CachedExtractor.extract_with_cache          *)
(*   SpecTask   a Celery task, its two endpoints and a polling client      *)
(*   SpecEndpoint  the upload endpoints and HWPConverter.convert           *)
(*   SpecExtract   TextExtractor.extract_structured and its plain text     *)
(*   SpecClean     clean_hwp_text, the noise-filtering pipeline            *)
(*   SpecHwpx      HWPXParser.parse and its section parts                  *)
(*   SpecSx        POST /stream/extract and its temporary file             *)
(*   SpecChunked   ChunkedTextExtractor.extract_chunked                    *)
(*   SpecScan      VirusScanner.scan_file_async and validate_file_async    *)
(***************************************************************************)
EXTENDS Integers, Sequences, FiniteSets, TLC

VARIABLES
    \* ---- API keys (app/api/v1/endpoints/api_keys.py, app/middleware/api_key_auth.py)
    now,             \* datetime.utcnow(), in days
    keys,            \* table api_keys: key string -> row, or NoRow
    users,           \* table users: username -> is_active
    authResp,        \* response of the key-authenticated request just served, or None
    \* ---- RateLimiter (app/middleware/rate_limit_fixed.py)
    rlNow,           \* time.time(), in ticks of 1/TicksPerSecond second
    clients,         \* self.clients: client id -> list of request times
    admitted,        \* history: per client, the times of its admitted requests
                     \*          that are still inside the trailing window
    lastCall,        \* history: per client, its latest check_rate_limit call
    \* ---- ConcurrencyLimitMiddleware (app/middleware/concurrency.py)
    active_requests, \* self.active_requests
    semaphore,       \* value of self.semaphore
    reqState,        \* per request: "idle", "running" (inside call_next) or
                     \*              "waiting" (suspended in semaphore.acquire)
    reqResp,         \* per request: status of its latest response, 0 if none
    lastArrival,     \* history: the request that has just entered dispatch
    \* ---- streaming an upload to disk (app/services/stream_parser.py,
    \*      app/utils/streaming.py)
    upImpl,          \* which routine saves the upload
    upMax,           \* the size ceiling (max_file_size / max_size), bytes
    upChunks,        \* the body: the sizes of the chunks the stream delivers
    upPos,           \* chunks read from the stream so far
    upWritten,       \* bytes_written: bytes written to the file so far
    upFile,          \* the temporary file: "absent" or "present"
    upPc,            \* "start", "copying", "saved", "released" or "rejected"
    \* ---- EnhancedHWPParser.parse (app/services/enhanced_hwp_parser.py)
    dExists,         \* os.path.exists(file_path)
    dIdx,            \* position of the loop over self.strategies
    dErrors,         \* errors: the strategies named in the failure list
    dTried,          \* history: the strategies passed over so far, and why
    dFallback,       \* history: the smart-fallback attempt of the turn just taken
    dResult,         \* the dict parse returns
    dPc,             \* "running", "returned" or "raised"
    \* ---- record framing (extract_clean_text_from_hwp_data, extract_from_bodytext)
    fRecords,        \* the records the buffer was assembled from
    fData,           \* the decompressed BodyText buffer, a sequence of bytes
    fImpl,           \* which loop reads it: "enhanced" or "improved"
    fOffset,         \* offset
    fVisited,        \* the records visited so far, with the body sliced out
    fReadEnd,        \* history: the end of the furthest struct.unpack_from so far
    fPc,             \* "idle", "scanning" or "done"
    \* ---- CacheManager._generate_cache_key (app/core/cache.py)
    kMd5,            \* hashlib.md5(...).hexdigest()[:8] of each options string
    kArgsA,          \* the arguments of a first call
    kArgsB,          \* the arguments of a second call
    kKeyA,           \* the key of the first call, or NoKey
    kKeyB,           \* the key of the second call, or NoKey
    \* ---- CacheManager._calculate_ttl (app/core/cache.py)
    tDefault,        \* self.ttl, settings.CACHE_TTL
    tType,           \* extraction_type
    tSizeA,          \* data_size of a first call
    tSizeB,          \* data_size of a second call, not smaller
    tTtlA,           \* the TTL of the first call, or NoTime
    tTtlB,           \* the TTL of the second call, or NoTime
    \* ---- CacheManager and the key-value store behind it (app/core/cache.py)
    cEnabled,        \* self.enabled
    cClient,         \* self.redis_client is set
    cStore,          \* the store: key -> entry, or NoEntry
    cLast,           \* history: the operation just completed and how it ended
    \* ---- the cache wrappers (app/core/decorators.py, app/services/cached_extractor.py)
    wLast,           \* history: the wrapped request just served
    \* ---- an asynchronous task and a client waiting for it
    \* ---- (app/api/v1/endpoints/async_extract.py, examples/python/client.py)
    aState,          \* AsyncResult(task_id).state
    pMaxWait,        \* max_wait of the wait_for_result call
    pInterval,       \* poll_interval of the call
    pElapsed,        \* time.time() - start_time
    pStatus,         \* status["status"] of the last check_status, or None
    pOutcome,        \* how the call ended: "none" while it is waiting
    rLast,           \* history: the answer to the GET /async/result just made
    \* ---- the upload endpoints and HWPConverter (app/api/v1/endpoints/extract.py,
    \* ---- async_extract.py, convert.py, app/services/hwp_converter.py)
    eLast,           \* history: the upload just served, what it met and the answer
    \* ---- TextExtractor.extract_structured (app/services/text_extractor.py)
    xParsed,         \* parsed_content: paragraphs, tables and, if present, text
    xText,           \* result["text"], or NoText before the call
    \* ---- clean_hwp_text, the noise filter (app/services/enhanced_hwp_parser.py)
    nText,           \* the text given, a sequence of code points
    nOnce,           \* clean_hwp_text(text), or NotCleaned
    nTwice,          \* clean_hwp_text of that, or NotCleaned
    \* ---- HWPXParser.parse (app/services/hwpx_parser.py)
    hFile,           \* the file: whether it opens as a ZIP, its section parts, its preview
    hResult,         \* how parse ended, or NotParsed
    \* ---- POST /stream/extract (app/api/v1/endpoints/stream_extract.py)
    sExt,            \* file_ext, the part of the filename after its last dot
    sChunks,         \* how many chunks file_stream() delivers
    sCeiling,        \* max_file_size, in chunks
    sWritten,        \* chunks written to the temporary file
    sFile,           \* the temporary file: "none", "exists" or "removed"
    sPc,             \* "start", "saving", "saved" or "done"
    sResp,           \* the response: its status and how far its body got
    \* ---- ChunkedTextExtractor.extract_chunked (app/utils/streaming.py)
    chInput,         \* the text the generator was called with
    chSize,          \* self.chunk_size
    chText,          \* the local text, which the loop reassigns
    chI,             \* i, the next value of range(0, len(text), chunk_size)
    chYielded,       \* the chunks yielded so far
    chPc,            \* "looping" or "done"
    \* ---- VirusScanner and FileValidator (app/utils/virus_scanner.py, file_validator.py)
    vFile,           \* the file on disk: its digest, the patterns in it, readable
    vCall,           \* what validate_file_async meets before the virus scan
    scan_count,      \* self.scan_count of the scanner
    vScan,           \* what scan_file_async returned, or NotScanned
    vResult          \* what validate_file_async returned, or NotValidated

authVars == <<now, keys, users, authResp>>
rateVars == <<rlNow, clients, admitted, lastCall>>
concVars == <<active_requests, semaphore, reqState, reqResp, lastArrival>>

streamVars == <<upImpl, upMax, upChunks, upPos, upWritten, upFile, upPc>>

parseVars == <<dExists, dIdx, dErrors, dTried, dFallback, dResult, dPc>>

frameVars == <<fRecords, fData, fImpl, fOffset, fVisited, fReadEnd, fPc>>

keyVars == <<kMd5, kArgsA, kArgsB, kKeyA, kKeyB>>

ttlVars == <<tDefault, tType, tSizeA, tSizeB, tTtlA, tTtlB>>

cacheVars == <<cEnabled, cClient, cStore, cLast>>

wrapVars == <<wLast>>

taskVars == <<aState, pMaxWait, pInterval, pElapsed, pStatus, pOutcome, rLast>>

endpointVars == <<eLast>>

extractVars == <<xParsed, xText>>

cleanVars == <<nText, nOnce, nTwice>>

hwpxVars == <<hFile, hResult>>

sxVars == <<sExt, sChunks, sCeiling, sWritten, sFile, sPc, sResp>>

chunkedVars == <<chInput, chSize, chText, chI, chYielded, chPc>>

scanVars == <<vFile, vCall, scan_count, vScan, vResult>>

vars == <<authVars, rateVars, concVars, streamVars, parseVars, frameVars, keyVars, ttlVars, cacheVars, wrapVars, taskVars, endpointVars, extractVars, cleanVars, hwpxVars, sxVars, chunkedVars, scanVars>>

nonAuth == <<rateVars, concVars, streamVars, parseVars, frameVars, keyVars, ttlVars, cacheVars, wrapVars, taskVars, endpointVars, extractVars, cleanVars, hwpxVars, sxVars, chunkedVars, scanVars>>
nonRate == <<authVars, concVars, streamVars, parseVars, frameVars, keyVars, ttlVars, cacheVars, wrapVars, taskVars, endpointVars, extractVars, cleanVars, hwpxVars, sxVars, chunkedVars, scanVars>>
nonConc == <<authVars, rateVars, streamVars, parseVars, frameVars, keyVars, ttlVars, cacheVars, wrapVars, taskVars, endpointVars, extractVars, cleanVars, hwpxVars, sxVars, chunkedVars, scanVars>>
nonStream == <<authVars, rateVars, concVars, parseVars, frameVars, keyVars, ttlVars, cacheVars, wrapVars, taskVars, endpointVars, extractVars, cleanVars, hwpxVars, sxVars, chunkedVars, scanVars>>
nonParse == <<authVars, rateVars, concVars, streamVars, frameVars, keyVars, ttlVars, cacheVars, wrapVars, taskVars, endpointVars, extractVars, cleanVars, hwpxVars, sxVars, chunkedVars, scanVars>>
nonFrame == <<authVars, rateVars, concVars, streamVars, parseVars, keyVars, ttlVars, cacheVars, wrapVars, taskVars, endpointVars, extractVars, cleanVars, hwpxVars, sxVars, chunkedVars, scanVars>>
nonKey == <<authVars, rateVars, concVars, streamVars, parseVars, frameVars, ttlVars, cacheVars, wrapVars, taskVars, endpointVars, extractVars, cleanVars, hwpxVars, sxVars, chunkedVars, scanVars>>
nonTtl == <<authVars, rateVars, concVars, streamVars, parseVars, frameVars, keyVars, cacheVars, wrapVars, taskVars, endpointVars, extractVars, cleanVars, hwpxVars, sxVars, chunkedVars, scanVars>>
nonCache == <<authVars, rateVars, concVars, streamVars, parseVars, frameVars, keyVars, ttlVars, wrapVars, taskVars, endpointVars, extractVars, cleanVars, hwpxVars, sxVars, chunkedVars, scanVars>>
nonWrap == <<authVars, rateVars, concVars, streamVars, parseVars, frameVars, keyVars, ttlVars, cacheVars, taskVars, endpointVars, extractVars, cleanVars, hwpxVars, sxVars, chunkedVars, scanVars>>
nonCacheWrap == <<authVars, rateVars, concVars, streamVars, parseVars, frameVars, keyVars, ttlVars, taskVars, endpointVars, extractVars, cleanVars, hwpxVars, sxVars, chunkedVars, scanVars>>
nonTask == <<authVars, rateVars, concVars, streamVars, parseVars, frameVars, keyVars, ttlVars, cacheVars, wrapVars, endpointVars, extractVars, cleanVars, hwpxVars, sxVars, chunkedVars, scanVars>>
nonEndpoint == <<authVars, rateVars, concVars, streamVars, parseVars, frameVars, keyVars, ttlVars, cacheVars, wrapVars, taskVars, extractVars, cleanVars, hwpxVars, sxVars, chunkedVars, scanVars>>
nonExtract == <<authVars, rateVars, concVars, streamVars, parseVars, frameVars, keyVars, ttlVars, cacheVars, wrapVars, taskVars, endpointVars, cleanVars, hwpxVars, sxVars, chunkedVars, scanVars>>
nonClean == <<authVars, rateVars, concVars, streamVars, parseVars, frameVars, keyVars, ttlVars, cacheVars, wrapVars, taskVars, endpointVars, extractVars, hwpxVars, sxVars, chunkedVars, scanVars>>
nonHwpx == <<authVars, rateVars, concVars, streamVars, parseVars, frameVars, keyVars, ttlVars, cacheVars, wrapVars, taskVars, endpointVars, extractVars, cleanVars, sxVars, chunkedVars, scanVars>>
nonSx == <<authVars, rateVars, concVars, streamVars, parseVars, frameVars, keyVars, ttlVars, cacheVars, wrapVars, taskVars, endpointVars, extractVars, cleanVars, hwpxVars, chunkedVars, scanVars>>
nonChunked == <<authVars, rateVars, concVars, streamVars, parseVars, frameVars, keyVars, ttlVars, cacheVars, wrapVars, taskVars, endpointVars, extractVars, cleanVars, hwpxVars, sxVars, scanVars>>
nonScan == <<authVars, rateVars, concVars, streamVars, parseVars, frameVars, keyVars, ttlVars, cacheVars, wrapVars, taskVars, endpointVars, extractVars, cleanVars, hwpxVars, sxVars, chunkedVars>>

None == "None"      \* Python None where a string is expected
NoTime == 0 - 1     \* Python None where a datetime is expected
NoResp == [absent |-> TRUE]

(***************************************************************************)
(* API keys                                                                *)
(***************************************************************************)
MaxTime == 2         \* the clock stops advancing here
MaxDays == 1         \* largest expires_in_days requested

Users == {"u1", "u2"}
KeyStrings == {"k1", "k2"}   \* values generate_api_key() returns
NoRow == [absent |-> TRUE]

\* APIKey row; expires_at and last_used are NoTime or a time
KeyRow(u, act, exp, used) ==
    [user_id |-> u, is_active |-> act, expires_at |-> exp, last_used |-> used]

\* api_key.expires_at and api_key.expires_at < datetime.utcnow()
IsExpired(row, t) == row.expires_at # NoTime /\ row.expires_at < t

\* the key lookup of the management endpoints:
\* filter(APIKey.id == api_key_id, APIKey.user_id == db_user.id).first()
OwnKey(u, k) == keys[k] # NoRow /\ keys[k].user_id = u

AuthIdle ==
    /\ now = 0
    /\ keys = [k \in KeyStrings |-> NoRow]
    /\ users = [u \in Users |-> TRUE]
    /\ authResp = NoResp

\* time passes
Tick ==
    /\ now < MaxTime
    /\ now' = now + 1
    /\ authResp' = NoResp
    /\ UNCHANGED <<keys, users>>
    /\ UNCHANGED nonAuth

\* User.is_active is changed by direct persistence access only
SetUserActive(u, b) ==
    /\ users[u] # b
    /\ users' = [users EXCEPT ![u] = b]
    /\ authResp' = NoResp
    /\ UNCHANGED <<now, keys>>
    /\ UNCHANGED nonAuth

\* POST /create
create_api_key(u, k, days) ==
    /\ keys[k] = NoRow
    /\ keys' = [keys EXCEPT ![k] =
                  KeyRow(u, TRUE, IF days = NoTime THEN NoTime ELSE now + days, NoTime)]
    /\ authResp' = NoResp
    /\ UNCHANGED <<now, users>>
    /\ UNCHANGED nonAuth

\* DELETE /{api_key_id}
delete_api_key(u, k) ==
    /\ OwnKey(u, k)
    /\ keys' = [keys EXCEPT ![k] = NoRow]
    /\ authResp' = NoResp
    /\ UNCHANGED <<now, users>>
    /\ UNCHANGED nonAuth

\* PATCH /{api_key_id}/deactivate
deactivate_api_key(u, k) ==
    /\ OwnKey(u, k)
    /\ keys' = [keys EXCEPT ![k].is_active = FALSE]
    /\ authResp' = NoResp
    /\ UNCHANGED <<now, users>>
    /\ UNCHANGED nonAuth

\* PATCH /{api_key_id}/activate on a key of the caller: 400 for an expired
\* key, else is_active = True and 200
ActivateAllowed_Always(row, t) == TRUE

ActivateAllowed(row, t) == ~IsExpired(row, t)

activate_api_key(u, k) ==
    LET allowed == ActivateAllowed(keys[k], now)
    IN  /\ OwnKey(u, k)
        /\ keys' = IF allowed THEN [keys EXCEPT ![k].is_active = TRUE] ELSE keys
        /\ authResp' = [req |-> [kind |-> "activate", key |-> k],
                        verified |-> FALSE,
                        user |-> None,
                        status |-> IF allowed THEN 200 ELSE 400,
                        stamped |-> FALSE]
        /\ UNCHANGED <<now, users>>
        /\ UNCHANGED nonAuth

\* verify_api_key(api_key, db): the user the key authenticates, or None, and
\* whether last_used was stamped on the way
VerifyApiKey_NoExpiryCheck(k, t) ==
    IF keys[k] = NoRow THEN [user |-> None, stamped |-> FALSE]
    ELSE IF ~keys[k].is_active THEN [user |-> None, stamped |-> FALSE]
    ELSE [user |-> IF users[keys[k].user_id] THEN keys[k].user_id ELSE None,
          stamped |-> TRUE]

VerifyApiKey(k, t) ==
    IF keys[k] = NoRow THEN [user |-> None, stamped |-> FALSE]
    ELSE IF ~keys[k].is_active THEN [user |-> None, stamped |-> FALSE]
    ELSE IF IsExpired(keys[k], t) THEN [user |-> None, stamped |-> FALSE]
    ELSE [user |-> IF users[keys[k].user_id] THEN keys[k].user_id ELSE None,
          stamped |-> TRUE]

\* A request to a protected endpoint: the key travels as
\* "Authorization: Bearer <key>" (bearer), as "X-API-Key: <key>" with no
\* Authorization header (xapi), or not at all (none).
Transports == {"bearer", "xapi"}
Requests == [kind : Transports, key : KeyStrings] \cup {[kind |-> "none", key |-> None]}

\* HTTPBearer.__call__ with auto_error=True raises when the Authorization
\* header is missing: 403 in older FastAPI releases, 401 in newer ones.
HTTPBearerReject == {401, 403}

\* APIKeyAuth.__call__ as built by RequireAPIKey() (auto_error=True): the key
\* it extracts, or None when super().__call__ has raised already
ExtractedKey(req) == IF req.kind = "bearer" THEN req.key ELSE None

\* RequireAPIKey.__call__
Authenticate(req) ==
    \E rejectStatus \in HTTPBearerReject :
        LET k == ExtractedKey(req)
            v == IF k = None THEN [user |-> None, stamped |-> FALSE]
                 ELSE VerifyApiKey(k, now)
        IN  /\ keys' = IF v.stamped THEN [keys EXCEPT ![k].last_used = now] ELSE keys
            /\ authResp' = [req |-> req,
                            verified |-> k # None,
                            user |-> v.user,
                            status |-> IF k = None THEN rejectStatus
                                       ELSE IF v.user = None THEN 401 ELSE 200,
                            stamped |-> v.stamped]
            /\ UNCHANGED <<now, users>>
            /\ UNCHANGED nonAuth

NextAuth ==
    \/ Tick
    \/ \E u \in Users, b \in BOOLEAN : SetUserActive(u, b)
    \/ \E u \in Users, k \in KeyStrings, d \in (1..MaxDays) \cup {NoTime} : create_api_key(u, k, d)
    \/ \E u \in Users, k \in KeyStrings : delete_api_key(u, k)
    \/ \E u \in Users, k \in KeyStrings : deactivate_api_key(u, k)
    \/ \E u \in Users, k \in KeyStrings : activate_api_key(u, k)
    \/ \E req \in Requests : Authenticate(req)

(***************************************************************************)
(* RateLimiter                                                             *)
(***************************************************************************)
TicksPerSecond == 2  \* resolution of the clock: time.time() is a float
RLWindow == 2        \* RateLimiter.window, seconds
RLLimit == 2         \* RateLimiter.requests
MaxNow == 6          \* the clock stops advancing here, ticks

Clients == {"c1", "c2"}
WindowTicks == RLWindow * TicksPerSecond
NoCall == [absent |-> TRUE]

RECURSIVE SeqMin(_)
SeqMin(s) == IF Len(s) = 1 THEN s[1]
             ELSE LET m == SeqMin(Tail(s)) IN IF s[1] < m THEN s[1] ELSE m

\* self.clients[client_id] on a defaultdict(list)
ClientList(c) == IF c \in DOMAIN clients THEN clients[c] ELSE <<>>

\* _cleanup_old_requests: keep req_time > current_time - self.window
CleanupOld(list, t) == SelectSeq(list, LAMBDA r : r > t - WindowTicks)

\* len(self.clients[client_id]) >= self.requests
AtLimit_OffByOne(list) == Len(list) > RLLimit

AtLimit(list) == Len(list) >= RLLimit

\* retry_after = int(self.window - (current_time - oldest_request)), seconds;
\* the operand is positive, so int() rounds it down
RetryAfter(list, t) == (WindowTicks - (t - SeqMin(list))) \div TicksPerSecond

RateIdle ==
    /\ rlNow = 0
    /\ clients = <<>>
    /\ admitted = [c \in Clients |-> <<>>]
    /\ lastCall = [c \in Clients |-> NoCall]

\* time passes; the history forgets what has left the trailing window
RateTick ==
    /\ rlNow < MaxNow
    /\ rlNow' = rlNow + 1
    /\ admitted' = [c \in Clients |->
                      SelectSeq(admitted[c], LAMBDA r : r > rlNow + 1 - WindowTicks)]
    /\ UNCHANGED <<clients, lastCall>>
    /\ UNCHANGED nonRate

\* what lastCall records of a call: its number among the client's calls
\* (counted up to RLLimit + 2), the time of the client's first call, its own
\* time and outcome, and whether it came exactly retry seconds after a
\* rejected call of the same client
CallRecord(c, ok, retry) ==
    LET prev == lastCall[c] IN
    [idx   |-> IF prev = NoCall THEN 1
               ELSE IF prev.idx < RLLimit + 2 THEN prev.idx + 1 ELSE prev.idx,
     first |-> IF prev = NoCall THEN rlNow ELSE prev.first,
     at    |-> rlNow,
     ok    |-> ok,
     status |-> IF ok THEN 200 ELSE 429,
     retry |-> retry,
     waited |-> /\ prev # NoCall
                /\ ~prev.ok
                /\ rlNow = prev.at + prev.retry * TicksPerSecond]

\* check_rate_limit for client c
check_rate_limit(c) ==
    LET kept == CleanupOld(ClientList(c), rlNow) IN
    IF AtLimit(kept)
    THEN /\ clients' = [x \in DOMAIN clients \cup {c} |->
                          IF x = c THEN kept ELSE clients[x]]
         /\ lastCall' = [lastCall EXCEPT ![c] = CallRecord(c, FALSE, RetryAfter(kept, rlNow))]
         /\ UNCHANGED <<rlNow, admitted>>
         /\ UNCHANGED nonRate
    ELSE /\ clients' = [x \in DOMAIN clients \cup {c} |->
                          IF x = c THEN Append(kept, rlNow) ELSE clients[x]]
         /\ admitted' = [admitted EXCEPT ![c] = Append(@, rlNow)]
         /\ lastCall' = [lastCall EXCEPT ![c] = CallRecord(c, TRUE, 0)]
         /\ UNCHANGED rlNow
         /\ UNCHANGED nonRate

\* one round of cleanup_loop: purge every client, drop the empty ones
cleanup_loop ==
    LET purged == [x \in DOMAIN clients |-> CleanupOld(clients[x], rlNow)]
        live == {x \in DOMAIN clients : purged[x] # <<>>}
    IN  /\ clients' = [x \in live |-> purged[x]]
        /\ UNCHANGED <<rlNow, admitted, lastCall>>
        /\ UNCHANGED nonRate

NextRate ==
    \/ RateTick
    \/ \E c \in Clients : check_rate_limit(c)
    \/ cleanup_loop

(***************************************************************************)
(* ConcurrencyLimitMiddleware                                              *)
(***************************************************************************)
MaxConcurrent == 2   \* max_concurrent_requests
NumRequests == 3     \* requests that may be in flight together

ReqIds == 1..NumRequests
NoArrival == [absent |-> TRUE]

\* requests executing past the middleware
Running == {r \in ReqIds : reqState[r] = "running"}
Waiting == {r \in ReqIds : reqState[r] = "waiting"}

\* self.active_requests >= self.max_concurrent_requests
AtCapacity_OffByOne(n) == n > MaxConcurrent

AtCapacity(n) == n >= MaxConcurrent

ConcIdle ==
    /\ active_requests = 0
    /\ semaphore = MaxConcurrent
    /\ reqState = [r \in ReqIds |-> "idle"]
    /\ reqResp = [r \in ReqIds |-> 0]
    /\ lastArrival = NoArrival

\* dispatch up to "await call_next(request)": the capacity test, then
\* "async with self.semaphore" (which suspends only if the value is 0) and
\* the increment; no await separates the test from the increment
dispatch(r) ==
    /\ reqState[r] = "idle"
    /\ IF AtCapacity(active_requests)
       THEN /\ reqResp' = [reqResp EXCEPT ![r] = 503]
            /\ lastArrival' = [req |-> r, executing |-> Cardinality(Running),
                               outcome |-> "rejected"]
            /\ UNCHANGED <<active_requests, semaphore, reqState>>
       ELSE IF semaphore > 0
       THEN /\ semaphore' = semaphore - 1
            /\ active_requests' = active_requests + 1
            /\ reqState' = [reqState EXCEPT ![r] = "running"]
            /\ lastArrival' = [req |-> r, executing |-> Cardinality(Running),
                               outcome |-> "admitted"]
            /\ UNCHANGED reqResp
       ELSE /\ reqState' = [reqState EXCEPT ![r] = "waiting"]
            /\ lastArrival' = [req |-> r, executing |-> Cardinality(Running),
                               outcome |-> "queued"]
            /\ UNCHANGED <<active_requests, semaphore, reqResp>>
    /\ UNCHANGED nonConc

\* the finally clause and the exit of "async with": the counter goes down and
\* the semaphore is released, which hands the slot to a waiting request
LeaveMiddleware(r, status) ==
    /\ reqResp' = [reqResp EXCEPT ![r] = status]
    /\ lastArrival' = NoArrival
    /\ IF Waiting = {}
       THEN /\ active_requests' = active_requests - 1
            /\ semaphore' = semaphore + 1
            /\ reqState' = [reqState EXCEPT ![r] = "idle"]
       ELSE LET w == CHOOSE x \in Waiting : TRUE IN
            /\ UNCHANGED <<active_requests, semaphore>>
            /\ reqState' = [reqState EXCEPT ![r] = "idle", ![w] = "running"]
    /\ UNCHANGED nonConc

\* call_next returns a response
HandlerReturns(r) ==
    /\ reqState[r] = "running"
    /\ LeaveMiddleware(r, 200)

\* call_next raises
HandlerRaises(r) ==
    /\ reqState[r] = "running"
    /\ LeaveMiddleware(r, 500)

NextConc ==
    \/ \E r \in ReqIds : dispatch(r)
    \/ \E r \in ReqIds : HandlerReturns(r)
    \/ \E r \in ReqIds : HandlerRaises(r)

(***************************************************************************)
(* Streaming an upload to a temporary file                                 *)
(***************************************************************************)
MaxChunks == 3       \* chunks in a body
MaxChunkSize == 2    \* bytes in a chunk
MaxCeiling == 3      \* largest size ceiling tried

\* StreamParser.save_uploaded_file_stream and
\* StreamingFileProcessor.process_upload_stream
Impls == {"save_uploaded_file_stream", "process_upload_stream"}

RECURSIVE SumTo(_, _)
SumTo(s, n) == IF n = 0 THEN 0 ELSE s[n] + SumTo(s, n - 1)

Bodies == UNION {[1..n -> 1..MaxChunkSize] : n \in 0..MaxChunks}

\* bytes_written + len(chunk) > self.max_file_size, and
\* total_size += len(chunk); total_size > max_size
Exceeds_TestedBeforeAdding(written, len, max) == written > max

Exceeds(written, len, max) == written + len > max

\* the state every other specification keeps: no upload
StreamIdle ==
    /\ upImpl = "save_uploaded_file_stream"
    /\ upMax = 1
    /\ upChunks = <<>>
    /\ upPos = 0
    /\ upWritten = 0
    /\ upFile = "absent"
    /\ upPc = "start"

\* an upload: any body under any ceiling, saved by either routine
StreamInputs ==
    /\ upImpl \in Impls
    /\ upMax \in 1..MaxCeiling
    /\ upChunks \in Bodies
    /\ upPos = 0
    /\ upWritten = 0
    /\ upFile = "absent"
    /\ upPc = "start"

\* tempfile.NamedTemporaryFile(delete=False) / aiofiles.open(output_path, 'wb')
OpenTempFile ==
    /\ upPc = "start"
    /\ upFile' = "present"
    /\ upPc' = "copying"
    /\ UNCHANGED <<upImpl, upMax, upChunks, upPos, upWritten>>
    /\ UNCHANGED nonStream

\* one turn of the copy loop: read the next chunk; past the ceiling the file
\* is unlinked (in the finally clause, resp. before the raise) and the error
\* is raised, else the chunk is written
CopyChunk ==
    /\ upPc = "copying"
    /\ upPos < Len(upChunks)
    /\ upPos' = upPos + 1
    /\ IF Exceeds(upWritten, upChunks[upPos + 1], upMax)
       THEN /\ upFile' = "absent"
            /\ upPc' = "rejected"
            /\ UNCHANGED upWritten
       ELSE /\ upWritten' = upWritten + upChunks[upPos + 1]
            /\ UNCHANGED <<upFile, upPc>>
    /\ UNCHANGED <<upImpl, upMax, upChunks>>
    /\ UNCHANGED nonStream

\* the stream is exhausted: save_uploaded_file_stream yields the path,
\* process_upload_stream returns total_size
EndOfStream ==
    /\ upPc = "copying"
    /\ upPos = Len(upChunks)
    /\ upPc' = "saved"
    /\ UNCHANGED <<upImpl, upMax, upChunks, upPos, upWritten, upFile>>
    /\ UNCHANGED nonStream

\* the caller leaves "async with save_uploaded_file_stream(...)": the finally
\* clause unlinks the file
ReleaseTempFile ==
    /\ upPc = "saved"
    /\ upImpl = "save_uploaded_file_stream"
    /\ upFile' = "absent"
    /\ upPc' = "released"
    /\ UNCHANGED <<upImpl, upMax, upChunks, upPos, upWritten>>
    /\ UNCHANGED nonStream

NextStream ==
    \/ OpenTempFile
    \/ CopyChunk
    \/ EndOfStream
    \/ ReleaseTempFile

(***************************************************************************)
(* EnhancedHWPParser.parse: the strategy dispatcher                        *)
(*                                                                         *)
(* A text is known to the dispatcher through three numbers only: the       *)
(* length of the raw text a strategy returned, the length of               *)
(* clean_hwp_text(raw) and calculate_korean_ratio of the cleaned text, in  *)
(* percent.                                                                *)
(***************************************************************************)
MIN_KOREAN_RATIO_FOR_BODYTEXT == 10   \* percent
MinRawLength == 500          \* if text_length > 500
MinCleanedLength == 100      \* len(cleaned_text) < 100
FallbackMinRaw == 100        \* _try_prvtext_fallback: len(text) > 100
FallbackMinCleaned == 50     \* _try_prvtext_fallback: len(cleaned) > 50
GarbageRatio == 5            \* clean_hwp_text: is_garbage_chunk(result, 0.05)

\* self.strategies, in order, by the parsing_method each one stamps
Strategies == <<"bodytext_direct", "hwp5txt_cli", "hwp5_python_api", "prvtext_enhanced">>
NumStrategies == Len(Strategies)
BodyTextDirectParser == 1
EnhancedPrvTextStrategy == 4

\* the texts tried: lengths on both sides of every threshold; clean_hwp_text
\* returns "" (ratio 0) or a text of at least GarbageRatio percent Korean
RawLens == {FallbackMinRaw, FallbackMinRaw + 1, MinRawLength, MinRawLength + 1}
CleanLens == {0, FallbackMinCleaned, FallbackMinCleaned + 1,
              MinCleanedLength - 1, MinCleanedLength}
Ratios == {GarbageRatio, MIN_KOREAN_RATIO_FOR_BODYTEXT - 1,
           MIN_KOREAN_RATIO_FOR_BODYTEXT}
Texts == {[kind |-> "text", raw |-> r, cleaned |-> c, ratio |-> k] :
             r \in RawLens, c \in CleanLens \ {0}, k \in Ratios}
         \cup {[kind |-> "text", raw |-> r, cleaned |-> 0, ratio |-> 0] : r \in RawLens}

NoText(kind) == [kind |-> kind, raw |-> 0, cleaned |-> 0, ratio |-> 0]

\* what trying a strategy can come to: can_parse is false ("declined"),
\* can_parse or parse raises ("raised"), parse returns None or a dict with
\* empty text ("no_text"), or parse returns a text.
\* EnhancedPrvTextStrategy.can_parse is os.path.exists(file_path).
Outcomes(i) ==
    Texts \cup {NoText("raised"), NoText("no_text")}
          \cup (IF i = EnhancedPrvTextStrategy THEN {} ELSE {NoText("declined")})

NoFallback == [body_ratio |-> 0 - 1, preview |-> NoText("none")]

NoResult == [method |-> "none", text |-> 0, original_length |-> 0,
             korean_ratio |-> 0, bodytext_korean_ratio |-> 0, errors |-> <<>>]

\* if text_length > 500
Substantial_AtLeast(raw) == raw >= MinRawLength

Substantial(raw) == raw > MinRawLength

\* except Exception as e: errors.append(...)
Caught_Nothing(o) == FALSE

Caught(o) == o.kind = "raised"

\* _try_prvtext_fallback: the cleaned preview result, or NoResult for None
TryPrvtextFallback_NoLengthTest(po) ==
    IF po.kind = "text"
    THEN [NoResult EXCEPT !.method = "prvtext_enhanced", !.text = po.cleaned,
                          !.original_length = po.raw, !.korean_ratio = po.ratio]
    ELSE NoResult

TryPrvtextFallback(po) ==
    IF po.kind = "text" /\ po.raw > FallbackMinRaw /\ po.cleaned > FallbackMinCleaned
    THEN [NoResult EXCEPT !.method = "prvtext_enhanced", !.text = po.cleaned,
                          !.original_length = po.raw, !.korean_ratio = po.ratio]
    ELSE NoResult

\* the smart fallback applies to strategy i with cleaned ratio k
FallbackWanted(i, k) == i = BodyTextDirectParser /\ k < MIN_KOREAN_RATIO_FOR_BODYTEXT

\* One turn of "for strategy in self.strategies" for strategy i, whose
\* can_parse/parse come to o, the independent preview extraction coming to po:
\* what the turn does ("return", "continue" or "raise"), the dict returned,
\* whether the strategy enters errors, and why it was passed over.
LoopBody(i, o, po) ==
    LET skip(why, named) == [do |-> "continue", result |-> NoResult,
                             named |-> named, why |-> why]
        prv == TryPrvtextFallback(po)
    IN
    IF o.kind = "declined" THEN skip("declined", FALSE)
    ELSE IF o.kind = "raised"
         THEN IF Caught(o) THEN skip("raised", TRUE)
              ELSE [do |-> "raise", result |-> NoResult, named |-> FALSE, why |-> "raised"]
    ELSE IF o.kind = "no_text" \/ o.raw = 0 THEN skip("no_text", FALSE)
    ELSE IF ~Substantial(o.raw) THEN skip("short", FALSE)
    ELSE IF FallbackWanted(i, o.ratio) /\ prv # NoResult /\ prv.korean_ratio > o.ratio
         THEN [do |-> "return",
               result |-> [prv EXCEPT !.method = "prvtext_smart_fallback",
                                      !.bodytext_korean_ratio = o.ratio],
               named |-> FALSE, why |-> "replaced"]
    ELSE IF o.cleaned = 0 \/ o.cleaned < MinCleanedLength THEN skip("cleaned_short", FALSE)
    ELSE [do |-> "return",
          result |-> [NoResult EXCEPT !.method = Strategies[i], !.text = o.cleaned,
                                      !.original_length = o.raw, !.korean_ratio = o.ratio],
          named |-> FALSE, why |-> "accepted"]

\* the state every other specification keeps: parse not called
ParseIdle ==
    /\ dExists = TRUE
    /\ dIdx = 1
    /\ dErrors = <<>>
    /\ dTried = <<>>
    /\ dFallback = NoFallback
    /\ dResult = NoResult
    /\ dPc = "running"

\* parse(file_path) is entered, for a file that exists or not
ParseInputs ==
    /\ dExists \in BOOLEAN
    /\ dIdx = 1
    /\ dErrors = <<>>
    /\ dTried = <<>>
    /\ dFallback = NoFallback
    /\ dResult = NoResult
    /\ dPc = "running"

\* if not os.path.exists(file_path): raise FileNotFoundError
FileNotFound ==
    /\ dPc = "running"
    /\ ~dExists
    /\ dPc' = "raised"
    /\ UNCHANGED <<dExists, dIdx, dErrors, dTried, dFallback, dResult>>
    /\ UNCHANGED nonParse

\* one turn of the loop
TryStrategy ==
    /\ dPc = "running"
    /\ dExists
    /\ dIdx <= NumStrategies
    /\ \E o \in Outcomes(dIdx), po \in Outcomes(EnhancedPrvTextStrategy) :
          LET b == LoopBody(dIdx, o, po)
              asked == o.kind = "text" /\ Substantial(o.raw) /\ FallbackWanted(dIdx, o.ratio)
          IN  /\ asked \/ po = NoText("no_text")
              /\ dFallback' = IF asked THEN [body_ratio |-> o.ratio, preview |-> po]
                              ELSE NoFallback
              /\ dErrors' = IF b.named THEN Append(dErrors, Strategies[dIdx]) ELSE dErrors
              /\ dTried' = IF b.do = "return" THEN dTried
                           ELSE Append(dTried, [strategy |-> Strategies[dIdx], why |-> b.why,
                                                over500 |-> o.raw > MinRawLength,
                                                clean100 |-> o.cleaned >= MinCleanedLength])
              /\ dResult' = b.result
              /\ dPc' = IF b.do = "return" THEN "returned"
                        ELSE IF b.do = "raise" THEN "raised" ELSE "running"
              /\ dIdx' = IF b.do = "continue" THEN dIdx + 1 ELSE dIdx
    /\ UNCHANGED dExists
    /\ UNCHANGED nonParse

\* after the loop: the minimal result with the failure list
AllStrategiesFailed ==
    /\ dPc = "running"
    /\ dExists
    /\ dIdx > NumStrategies
    /\ dResult' = [NoResult EXCEPT !.method = "failed", !.errors = dErrors]
    /\ dPc' = "returned"
    /\ dFallback' = NoFallback
    /\ UNCHANGED <<dExists, dIdx, dErrors, dTried>>
    /\ UNCHANGED nonParse

NextParse ==
    \/ FileNotFound
    \/ TryStrategy
    \/ AllStrategiesFailed

(***************************************************************************)
(* Record framing: the two loops that walk a decompressed BodyText stream  *)
(*                                                                         *)
(* A buffer is a sequence of bytes; the byte at Python offset k is         *)
(* data[k + 1].  The 32-bit header is taken apart byte by byte, which      *)
(* gives the same three fields as the shifts and masks of the code.        *)
(***************************************************************************)
HWPTAG_PARA_TEXT == 66       \* 0x42
ExtendedSize == 4095         \* 0xFFF
MaxRecords == 2

\* struct.unpack_from('<I', data, offset)[0] of a value below 2^31
LE32At(data, offset) ==
    data[offset + 1] + 256 * data[offset + 2] + 65536 * data[offset + 3]
        + 16777216 * data[offset + 4]

\* tag_id = header & 0x3FF, level = (header >> 10) & 0x3FF,
\* size = (header >> 20) & 0xFFF
HeaderAt(data, offset) ==
    LET b0 == data[offset + 1]
        b1 == data[offset + 2]
        b2 == data[offset + 3]
        b3 == data[offset + 4]
    IN  [tag_id |-> b0 + 256 * (b1 % 4),
         level  |-> (b1 \div 4) + 64 * (b2 % 16),
         size   |-> (b2 \div 16) + 16 * b3]

\* data[a:b] of Python, clamped to the buffer
Slice(data, a, b) ==
    SubSeq(data, a + 1, IF b < Len(data) THEN b ELSE Len(data))

\* ---- the buffers read: concatenations of well-formed records
LE32(n) == <<n % 256, (n \div 256) % 256, (n \div 65536) % 256, (n \div 16777216) % 256>>

BodyOfSize(n) == [i \in 1..n |-> 1 + (i % 7)]

\* bodies on both sides of the extended-size escape
BodySizes == {0, 2, ExtendedSize, ExtendedSize + 1}

\* paragraph-text records at two levels, and records of another tag whose
\* tag and level both spill into the next byte of the header
RecordShapes ==
    {[tag_id |-> HWPTAG_PARA_TEXT, level |-> l, body |-> BodyOfSize(n)] :
        l \in {0, 65}, n \in BodySizes}
    \cup {[tag_id |-> HWPTAG_PARA_TEXT + 1 + 256, level |-> 65, body |-> BodyOfSize(n)] :
        n \in BodySizes}

\* the header word, then the true size when the 12-bit field cannot hold it
EncodeRecord(r) ==
    LET n == Len(r.body)
        field == IF n >= ExtendedSize THEN ExtendedSize ELSE n
        head == << r.tag_id % 256,
                   (r.tag_id \div 256) + 4 * (r.level % 64),
                   (r.level \div 64) + 16 * (field % 16),
                   field \div 16 >>
    IN  head \o (IF n >= ExtendedSize THEN LE32(n) ELSE <<>>) \o r.body

RECURSIVE Encode(_)
Encode(rs) == IF rs = <<>> THEN <<>> ELSE EncodeRecord(Head(rs)) \o Encode(Tail(rs))

RecordSeqs == UNION {[1..n -> RecordShapes] : n \in 0..MaxRecords}

FrameImpls == {"enhanced", "improved"}

FrameIdle ==
    /\ fRecords = <<>>
    /\ fData = <<>>
    /\ fImpl = "enhanced"
    /\ fOffset = 0
    /\ fVisited = <<>>
    /\ fReadEnd = 0
    /\ fPc = "idle"

FrameInputs ==
    /\ fRecords \in RecordSeqs
    /\ fData = Encode(fRecords)
    /\ fImpl \in FrameImpls
    /\ fOffset = 0
    /\ fVisited = <<>>
    /\ fReadEnd = 0
    /\ fPc = "scanning"

\* ---- buffers that end in the middle of a record: complete records, then
\* a proper, non-empty prefix of one more
CutPoints(r) == {n \in {1, 3, 4, 5, 7, 8, 9, Len(EncodeRecord(r)) - 1} :
                    n >= 1 /\ n < Len(EncodeRecord(r))}

CompleteSeqs == UNION {[1..n -> RecordShapes] : n \in 0..(MaxRecords - 1)}

TruncatedInputs ==
    /\ fRecords \in CompleteSeqs
    /\ \E r \in RecordShapes : \E n \in CutPoints(r) :
           fData = Encode(fRecords) \o SubSeq(EncodeRecord(r), 1, n)
    /\ fImpl \in FrameImpls
    /\ fOffset = 0
    /\ fVisited = <<>>
    /\ fReadEnd = 0
    /\ fPc = "scanning"

Visit(h, body) == Append(fVisited, [tag_id |-> h.tag_id, level |-> h.level, body |-> body])

\* the furthest byte read once n bytes were unpacked at offset
ReadTo(offset, n) == IF n > 0 /\ offset + n > fReadEnd THEN offset + n ELSE fReadEnd

\* the loop is left, n bytes having been unpacked at the current offset
FrameStops(n) ==
    /\ fPc' = "done"
    /\ fReadEnd' = ReadTo(fOffset, n)
    /\ UNCHANGED <<fOffset, fVisited>>

\* extract_clean_text_from_hwp_data: one turn of the while loop
extract_clean_text_from_hwp_data ==
    /\ fPc = "scanning"
    /\ fImpl = "enhanced"
    /\ IF ~(fOffset < Len(fData) - 4) THEN FrameStops(0)
       ELSE LET h == HeaderAt(fData, fOffset)
                extended == h.size = ExtendedSize
            IN  IF extended /\ fOffset + 8 > Len(fData) THEN FrameStops(4)
                ELSE LET size == IF extended THEN LE32At(fData, fOffset + 4) ELSE h.size
                         data_offset == IF extended THEN fOffset + 8 ELSE fOffset + 4
                     IN  IF data_offset + size > Len(fData)
                         THEN FrameStops(data_offset - fOffset)
                         ELSE /\ fReadEnd' = ReadTo(fOffset, data_offset - fOffset)
                              /\ fVisited' = Visit(h, IF h.tag_id = HWPTAG_PARA_TEXT
                                                      THEN Slice(fData, data_offset, data_offset + size)
                                                      ELSE <<>>)
                              /\ fOffset' = data_offset + size
                              /\ fPc' = "scanning"
    /\ UNCHANGED <<fRecords, fData, fImpl>>
    /\ UNCHANGED nonFrame

\* HWPRecordParser.parse_record_header: (tag_id, level, size, next_offset),
\* size being the true size; tag_id -1 stands for None; read is the number of
\* bytes it unpacked
parse_record_header(data, offset) ==
    LET none(n) == [tag_id |-> 0 - 1, level |-> 0 - 1, size |-> 0 - 1,
                    next_offset |-> offset, read |-> n]
    IN  IF offset + 4 > Len(data) THEN none(0)
        ELSE LET h == HeaderAt(data, offset)
             IN  IF h.size = ExtendedSize
                 THEN IF offset + 8 > Len(data) THEN none(4)
                      ELSE LET size == LE32At(data, offset + 4)
                           IN  [tag_id |-> h.tag_id, level |-> h.level, size |-> size,
                                next_offset |-> offset + 8 + size, read |-> 8]
                 ELSE [tag_id |-> h.tag_id, level |-> h.level, size |-> h.size,
                       next_offset |-> offset + 4 + h.size, read |-> 4]

\* HWPTextExtractor.extract_from_bodytext: one turn of the while loop
extract_from_bodytext ==
    /\ fPc = "scanning"
    /\ fImpl = "improved"
    /\ IF ~(fOffset < Len(fData)) THEN FrameStops(0)
       ELSE LET h == parse_record_header(fData, fOffset)
            IN  IF h.tag_id = 0 - 1 THEN FrameStops(h.read)
                ELSE /\ fReadEnd' = ReadTo(fOffset, h.read)
                     /\ fVisited' =
                          Visit(h, IF h.size > 0 /\ fOffset + 4 < Len(fData)
                                      /\ h.tag_id = HWPTAG_PARA_TEXT
                                   THEN IF h.size = ExtendedSize
                                        THEN Slice(fData, fOffset + 8, h.next_offset)
                                        ELSE Slice(fData, fOffset + 4, h.next_offset)
                                   ELSE <<>>)
                     /\ fOffset' = h.next_offset
                     /\ fPc' = "scanning"
    /\ UNCHANGED <<fRecords, fData, fImpl>>
    /\ UNCHANGED nonFrame

NextFrame ==
    \/ extract_clean_text_from_hwp_data
    \/ extract_from_bodytext

(***************************************************************************)
(* CacheManager._generate_cache_key                                        *)
(*                                                                         *)
(* A key is the sequence of the pieces that the f-string joins with ":".   *)
(* An extraction type is the sequence of its own ":"-separated pieces (the *)
(* cache wrappers pass types such as "json_include_metadata:True").        *)
(* SHA-256 is taken to be free of collisions on the contents tried; the    *)
(* 8-character MD5 prefix is any function of the serialized options.       *)
(***************************************************************************)
Contents == {<<>>, <<1>>, <<2>>}

Sha256 == [c \in Contents |->
              IF c = <<>> THEN "e3b0c442" ELSE IF c = <<1>> THEN "4bf5122f" ELSE "dbc1b4c9"]

ExtractionTypes == {<<"json">>, <<"text">>, <<"json_include_metadata", "True">>}

\* options: omitted (None), or a dict given as its set of items
OptionItems == {{}, {<<"ocr", "true">>}, {<<"ocr", "false">>}}
OptionsArgs == {[given |-> FALSE, items |-> {}]}
               \cup {[given |-> TRUE, items |-> i] : i \in OptionItems}

Md5Prefixes == {"0a1b2c3d", "9f8e7d6c"}

NoKey == <<>>

\* "if options:" is false for None and for an empty dict
Truthy(options) == options.given /\ options.items # {}

generate_cache_key_OptionsIgnored(content, extraction_type, options, md5) ==
    <<"hwp_extract">> \o extraction_type \o <<Sha256[content]>>

generate_cache_key(content, extraction_type, options, md5) ==
    IF Truthy(options)
    THEN <<"hwp_extract">> \o extraction_type \o <<Sha256[content]>> \o <<md5[options.items]>>
    ELSE <<"hwp_extract">> \o extraction_type \o <<Sha256[content]>>

KeyArgs == [content : Contents, extraction_type : ExtractionTypes, options : OptionsArgs]

KeyIdle ==
    /\ kMd5 = [i \in OptionItems |-> "0a1b2c3d"]
    /\ kArgsA = [content |-> <<>>, extraction_type |-> <<"json">>,
                 options |-> [given |-> FALSE, items |-> {}]]
    /\ kArgsB = kArgsA
    /\ kKeyA = NoKey
    /\ kKeyB = NoKey

KeyInputs ==
    /\ kMd5 \in [OptionItems -> Md5Prefixes]
    /\ kArgsA \in KeyArgs
    /\ kArgsB \in KeyArgs
    /\ kKeyA = NoKey
    /\ kKeyB = NoKey

\* the first call
GenerateKeyA ==
    /\ kKeyA = NoKey
    /\ kKeyA' = generate_cache_key(kArgsA.content, kArgsA.extraction_type, kArgsA.options, kMd5)
    /\ UNCHANGED <<kMd5, kArgsA, kArgsB, kKeyB>>
    /\ UNCHANGED nonKey

\* the second call
GenerateKeyB ==
    /\ kKeyA # NoKey
    /\ kKeyB = NoKey
    /\ kKeyB' = generate_cache_key(kArgsB.content, kArgsB.extraction_type, kArgsB.options, kMd5)
    /\ UNCHANGED <<kMd5, kArgsA, kArgsB, kKeyA>>
    /\ UNCHANGED nonKey

NextKey ==
    \/ GenerateKeyA
    \/ GenerateKeyB

(***************************************************************************)
(* CacheManager._calculate_ttl                                             *)
(*                                                                         *)
(* int(x * 1.5), int(x * 0.8) and int(x * 2) of a non-negative integer x   *)
(* are the integer quotients (3x) div 2, (4x) div 5 and 2x.                *)
(***************************************************************************)
MaxCacheTtl == 86400         \* return min(base_ttl, 86400)
MiB == 1024 * 1024

\* settings.CACHE_TTL: the shipped 3600 and values around the cap
DefaultTtls == {0, 1, 7, 3600, 43200, 57600, MaxCacheTtl, MaxCacheTtl + 3600}

TtlTypes == {"json", "text", "markdown"}

DataSizes == {0, 1024, MiB, MiB + 1, 10 * MiB, 10 * MiB + 1, 100 * MiB}

Min2(a, b) == IF a < b THEN a ELSE b

calculate_ttl_Uncapped(ttl, extraction_type, data_size) ==
    LET typed == IF extraction_type = "json" THEN (ttl * 3) \div 2
                 ELSE IF extraction_type = "text" THEN (ttl * 4) \div 5
                 ELSE ttl
    IN  IF data_size > 10 * MiB THEN typed * 2
        ELSE IF data_size > MiB THEN (typed * 3) \div 2
        ELSE typed

calculate_ttl(ttl, extraction_type, data_size) ==
    LET typed == IF extraction_type = "json" THEN (ttl * 3) \div 2
                 ELSE IF extraction_type = "text" THEN (ttl * 4) \div 5
                 ELSE ttl
        sized == IF data_size > 10 * MiB THEN typed * 2
                 ELSE IF data_size > MiB THEN (typed * 3) \div 2
                 ELSE typed
    IN  Min2(sized, MaxCacheTtl)

TtlIdle ==
    /\ tDefault = 0
    /\ tType = "json"
    /\ tSizeA = 0
    /\ tSizeB = 0
    /\ tTtlA = NoTime
    /\ tTtlB = NoTime

TtlInputs ==
    /\ tDefault \in DefaultTtls
    /\ tType \in TtlTypes
    /\ tSizeA \in DataSizes
    /\ tSizeB \in {s \in DataSizes : s >= tSizeA}
    /\ tTtlA = NoTime
    /\ tTtlB = NoTime

\* the TTL of the smaller payload
CalculateTtlA ==
    /\ tTtlA = NoTime
    /\ tTtlA' = calculate_ttl(tDefault, tType, tSizeA)
    /\ UNCHANGED <<tDefault, tType, tSizeA, tSizeB, tTtlB>>
    /\ UNCHANGED nonTtl

\* the TTL of the larger payload
CalculateTtlB ==
    /\ tTtlA # NoTime
    /\ tTtlB = NoTime
    /\ tTtlB' = calculate_ttl(tDefault, tType, tSizeB)
    /\ UNCHANGED <<tDefault, tType, tSizeA, tSizeB, tTtlA>>
    /\ UNCHANGED nonTtl

NextTtl ==
    \/ CalculateTtlA
    \/ CalculateTtlB

(***************************************************************************)
(* CacheManager: connect, get, set, delete, clear_all, invalidate_pattern, *)
(* get_stats, over a store whose calls may raise                           *)
(*                                                                         *)
(* Every operation takes a fail point: "none" (no store call raises),      *)
(* "first" (the first store call raises) or "later" (the first store call  *)
(* succeeds and a later one raises).                                       *)
(***************************************************************************)
CacheTtl == 3600             \* settings.CACHE_TTL
CacheMaxSize == 100 * MiB    \* self.max_size

FailPoints == {"none", "first", "later"}

CachedContents == {<<1>>, <<2>>}
CachedTypes == {"json", "text"}

NoOptions == [given |-> FALSE, items |-> {}]
NoMd5 == [i \in OptionItems |-> "0a1b2c3d"]

KeyOf(content, extraction_type) ==
    generate_cache_key(content, <<extraction_type>>, NoOptions, NoMd5)

CacheKeys == {KeyOf(c, t) : c \in CachedContents, t \in CachedTypes}

\* the results cached: what is kept is the content and its serialized size
CacheData == {[content |-> "result", size |-> 2048],
              [content |-> "huge", size |-> CacheMaxSize + 1]}

NoEntry == [data |-> "none", ttl |-> NoTime]
Miss == "None"

Usable(enabled, client) == enabled /\ client

\* self.enabled after connect() went through the try block
EnabledAfterConnect_Unchanged(ok) == TRUE

EnabledAfterConnect(ok) == ok

\* get: the data returned (or Miss) and the store afterwards
cache_get(enabled, client, store, key, fail) ==
    IF ~Usable(enabled, client) \/ fail = "first" \/ store[key] = NoEntry
    THEN [result |-> Miss, store |-> store]
    ELSE IF fail = "later"
    THEN [result |-> Miss, store |-> store]
    ELSE [result |-> store[key].data,
          store |-> [store EXCEPT ![key].ttl = CacheTtl]]

\* set: the store afterwards
cache_set(enabled, client, store, key, extraction_type, data, fail) ==
    IF ~Usable(enabled, client) \/ data.size > CacheMaxSize \/ fail # "none"
    THEN store
    ELSE [store EXCEPT ![key] = [data |-> data.content,
                                 ttl |-> calculate_ttl(CacheTtl, extraction_type, data.size)]]

\* the operations whose store calls all sit in a try block with
\* "except Exception"
InTryBlock_AllButGet(op) ==
    op \in {"connect", "set", "delete", "clear_all", "invalidate_pattern", "get_stats"}

InTryBlock(op) ==
    op \in {"connect", "get", "set", "delete", "clear_all", "invalidate_pattern", "get_stats"}

\* how an operation ended: degraded says that it ran with the cache disabled
\* or not connected, or that a store call raised (failed); unchanged, that
\* it left the store as it was
Completed(op, result, failed, after) ==
    [op |-> op,
     raised |-> failed /\ Usable(cEnabled, cClient) /\ ~InTryBlock(op),
     result |-> result,
     degraded |-> failed \/ ~Usable(cEnabled, cClient),
     unchanged |-> after = cStore]

NoOperation == [op |-> "none", raised |-> FALSE, result |-> Miss,
                degraded |-> FALSE, unchanged |-> TRUE]

CacheIdle ==
    /\ cEnabled = FALSE
    /\ cClient = FALSE
    /\ cStore = [k \in CacheKeys |-> NoEntry]
    /\ cLast = NoOperation

\* CacheManager(): enabled as configured, not connected
CacheInputs ==
    /\ cEnabled \in BOOLEAN
    /\ cClient = FALSE
    /\ cStore = [k \in CacheKeys |-> NoEntry]
    /\ cLast = NoOperation

\* connect(): "first" is from_url raising, "later" is ping raising
CacheConnect(fail) ==
    /\ IF ~cEnabled
       THEN UNCHANGED <<cEnabled, cClient>>
       ELSE /\ cClient' = (cClient \/ fail # "first")
            /\ cEnabled' = EnabledAfterConnect(fail = "none")
    /\ cLast' = [op |-> "connect",
                 raised |-> cEnabled /\ fail # "none" /\ ~InTryBlock("connect"),
                 result |-> Miss,
                 degraded |-> ~cEnabled \/ fail # "none",
                 unchanged |-> TRUE]
    /\ UNCHANGED cStore
    /\ UNCHANGED nonCache

CacheGet(content, extraction_type, fail) ==
    LET g == cache_get(cEnabled, cClient, cStore, KeyOf(content, extraction_type), fail)
    IN  /\ cStore' = g.store
        /\ cLast' = Completed("get", g.result, fail # "none", g.store)
        /\ UNCHANGED <<cEnabled, cClient>>
        /\ UNCHANGED nonCache

CacheSet(content, extraction_type, data, fail) ==
    /\ fail # "later"
    /\ cStore' = cache_set(cEnabled, cClient, cStore, KeyOf(content, extraction_type),
                           extraction_type, data, fail)
    /\ cLast' = Completed("set", Miss, fail # "none", cStore')
    /\ UNCHANGED <<cEnabled, cClient>>
    /\ UNCHANGED nonCache

CacheDelete(content, extraction_type, fail) ==
    /\ fail # "later"
    /\ cStore' = IF Usable(cEnabled, cClient) /\ fail = "none"
                 THEN [cStore EXCEPT ![KeyOf(content, extraction_type)] = NoEntry]
                 ELSE cStore
    /\ cLast' = Completed("delete", Miss, fail # "none", cStore')
    /\ UNCHANGED <<cEnabled, cClient>>
    /\ UNCHANGED nonCache

\* clear_all() and invalidate_pattern(pattern): scan and delete in batches;
\* "later" is a scan or delete raising after some batch was deleted
CacheScanDelete(op, matching, fail) ==
    /\ IF ~Usable(cEnabled, cClient) \/ fail = "first"
       THEN cStore' = cStore
       ELSE \E gone \in SUBSET matching :
               /\ fail = "none" => gone = matching
               /\ fail = "later" => gone # matching
               /\ cStore' = [k \in CacheKeys |-> IF k \in gone THEN NoEntry ELSE cStore[k]]
    /\ cLast' = Completed(op, Miss, fail # "none", cStore')
    /\ UNCHANGED <<cEnabled, cClient>>
    /\ UNCHANGED nonCache

CacheClearAll(fail) == CacheScanDelete("clear_all", CacheKeys, fail)

\* the patterns tried select the keys of one extraction type
CacheInvalidatePattern(extraction_type, fail) ==
    CacheScanDelete("invalidate_pattern",
                    {KeyOf(c, extraction_type) : c \in CachedContents}, fail)

\* get_stats(): {"enabled": False}, the statistics, or connected False with the error
CacheGetStats(fail) ==
    /\ cLast' = Completed("get_stats",
                          IF ~Usable(cEnabled, cClient) THEN "disabled"
                          ELSE IF fail = "none" THEN "stats" ELSE "not_connected",
                          fail # "none", cStore)
    /\ UNCHANGED <<cEnabled, cClient, cStore>>
    /\ UNCHANGED nonCache

\* the store drops an entry whose time to live has run out
EntryExpires(key) ==
    /\ cStore[key] # NoEntry
    /\ cStore' = [cStore EXCEPT ![key] = NoEntry]
    /\ cLast' = NoOperation
    /\ UNCHANGED <<cEnabled, cClient>>
    /\ UNCHANGED nonCache

NextCache ==
    \/ \E f \in FailPoints : CacheConnect(f)
    \/ \E c \in CachedContents, t \in CachedTypes, f \in FailPoints : CacheGet(c, t, f)
    \/ \E c \in CachedContents, t \in CachedTypes, d \in CacheData, f \in FailPoints :
          CacheSet(c, t, d, f)
    \/ \E c \in CachedContents, t \in CachedTypes, f \in FailPoints : CacheDelete(c, t, f)
    \/ \E f \in FailPoints : CacheClearAll(f)
    \/ \E t \in CachedTypes, f \in FailPoints : CacheInvalidatePattern(t, f)
    \/ \E f \in FailPoints : CacheGetStats(f)
    \/ \E k \in CacheKeys : EntryExpires(k)

(***************************************************************************)
(* The request-scoped cache wrappers: the decorator with_cache and         *)
(* CachedExtractor.extract_with_cache                                      *)
(***************************************************************************)
Wrappers == {"with_cache", "extract_with_cache"}

\* what the wrapped extraction comes to when it is run: a successful
\* result, a result with success False (with_cache only), or an exception
FuncOutcomes == {[kind |-> "success", content |-> c, size |-> 2048] : c \in {"result", "other"}}
                \cup {[kind |-> k, content |-> "none", size |-> 0] : k \in {"unsuccessful", "raises"}}

\* the file bytes of the requests
UploadedContents == {<<1>>}

NoRequest == [impl |-> "none", held |-> FALSE, cached |-> Miss, invoked |-> 0,
              outcome |-> "none", returned |-> Miss, written |-> FALSE, raised |-> FALSE]

WrapIdle == wLast = NoRequest

\* a manager that is enabled, and connected or not yet
WrapInputs ==
    /\ wLast = NoRequest
    /\ cEnabled = TRUE
    /\ cClient \in BOOLEAN
    /\ cStore = [k \in CacheKeys |-> NoEntry]
    /\ cLast = NoOperation

\* the request record: held says that the cache returned a result for the
\* request's bytes and parameters, invoked counts the runs of the wrapped
\* extraction
Served(impl, g, invoked, o, returned, after) ==
    [impl |-> impl, held |-> g.result # Miss, cached |-> g.result, invoked |-> invoked,
     outcome |-> IF invoked > 0 THEN o.kind ELSE "none",
     returned |-> returned,
     written |-> (after # g.store),
     raised |-> invoked > 0 /\ o.kind = "raises"]

\* with_cache(extraction_type)(func)(file, ...)
with_cache(content, extraction_type, o, getFail, setFail) ==
    LET key == KeyOf(content, extraction_type)
        g == cache_get(cEnabled, cClient, cStore, key, getFail)
        after == IF g.result = Miss /\ o.kind = "success"
                 THEN cache_set(cEnabled, cClient, g.store, key, extraction_type, o, setFail)
                 ELSE g.store
    IN  /\ setFail # "later"
        /\ cStore' = after
        /\ wLast' = Served("with_cache", g, 1, o,
                           IF o.kind = "raises" THEN Miss
                           ELSE IF g.result # Miss THEN g.result
                           ELSE o.content,
                           after)
        /\ UNCHANGED <<cEnabled, cClient, cLast>>
        /\ UNCHANGED nonCacheWrap

\* CachedExtractor.extract_with_cache(file_path, file_content, extraction_type)
extract_with_cache(content, extraction_type, o, getFail, setFail) ==
    LET key == KeyOf(content, extraction_type)
        g == cache_get(cEnabled, cClient, cStore, key, getFail)
        hit == g.result # Miss
        after == IF ~hit /\ o.kind = "success"
                 THEN cache_set(cEnabled, cClient, g.store, key, extraction_type, o, setFail)
                 ELSE g.store
    IN  /\ setFail # "later"
        /\ o.kind # "unsuccessful"
        /\ cStore' = after
        /\ wLast' = Served("extract_with_cache", g, IF hit THEN 0 ELSE 1, o,
                           IF hit THEN g.result
                           ELSE IF o.kind = "raises" THEN Miss ELSE o.content,
                           after)
        /\ UNCHANGED <<cEnabled, cClient, cLast>>
        /\ UNCHANGED nonCacheWrap

NextWrap ==
    \/ \E c \in UploadedContents, t \in CachedTypes, o \in FuncOutcomes,
          gf \in FailPoints, sf \in FailPoints : with_cache(c, t, o, gf, sf)
    \/ \E c \in UploadedContents, t \in CachedTypes, o \in FuncOutcomes,
          gf \in FailPoints, sf \in FailPoints : extract_with_cache(c, t, o, gf, sf)
    \/ \E f \in FailPoints : CacheConnect(f)
    \/ \E k \in CacheKeys : EntryExpires(k)

(***************************************************************************)
(* An asynchronous extraction task, GET /async/status and /async/result,   *)
(* and HWPAPIClient.wait_for_result                                        *)
(* (app/tasks.py, app/core/celery_app.py,                                  *)
(*  app/api/v1/endpoints/async_extract.py, examples/python/client.py)      *)
(***************************************************************************)
MaxWait == 3        \* the largest max_wait tried, in seconds
MaxInterval == 2    \* the largest poll_interval tried, in seconds

\* the states the result backend holds for extract_file_async: PENDING once
\* submitted, STARTED when a worker picks it up (task_track_started), the
\* custom PROCESSING of update_state, then SUCCESS or FAILURE
TaskStates == {"PENDING", "STARTED", "PROCESSING", "SUCCESS", "FAILURE"}
TerminalStates == {"SUCCESS", "FAILURE"}

NoAnswer == [state |-> None, code |-> 0, body |-> "none"]

\* GET /async/status/{task_id}: always a 200 with a TaskStatus body
get_task_status(state) ==
    IF state = "PENDING"
    THEN [code |-> 200, status |-> state, message |-> "Task is pending"]
    ELSE IF state = "PROCESSING"
    THEN [code |-> 200, status |-> state, message |-> "Processing"]
    ELSE IF state = "SUCCESS"
    THEN [code |-> 200, status |-> state, message |-> "Task completed successfully"]
    ELSE [code |-> 200, status |-> state, message |-> "Task failed"]

\* GET /async/result/{task_id}
get_task_result(state) ==
    IF state = "PENDING"
    THEN [state |-> state, code |-> 202, body |-> "Task is still pending"]
    ELSE IF state = "PROCESSING"
    THEN [state |-> state, code |-> 202, body |-> "Task is processing"]
    ELSE IF state = "SUCCESS"
    THEN [state |-> state, code |-> 200, body |-> "result"]
    ELSE [state |-> state, code |-> 500, body |-> "Task failed"]

\* response.raise_for_status() raises on 4xx and 5xx
RaisesForStatus(code) == code >= 400

TaskIdle ==
    /\ aState = "PENDING"
    /\ pMaxWait = 0
    /\ pInterval = 0
    /\ pElapsed = 0
    /\ pStatus = None
    /\ pOutcome = "none"
    /\ rLast = NoAnswer

\* a task just submitted, and a client entering wait_for_result
TaskInputs ==
    /\ aState = "PENDING"
    /\ pMaxWait \in 1..MaxWait
    /\ pInterval \in 1..MaxInterval
    /\ pElapsed = 0
    /\ pStatus = None
    /\ pOutcome = "none"
    /\ rLast = NoAnswer

\* a worker takes the task: task_track_started records STARTED
WorkerStarts ==
    /\ aState = "PENDING"
    /\ aState' = "STARTED"
    /\ rLast' = NoAnswer
    /\ UNCHANGED <<pMaxWait, pInterval, pElapsed, pStatus, pOutcome>>
    /\ UNCHANGED nonTask

\* self.update_state(state="PROCESSING", ...)
UpdateState ==
    /\ aState = "STARTED"
    /\ aState' = "PROCESSING"
    /\ rLast' = NoAnswer
    /\ UNCHANGED <<pMaxWait, pInterval, pElapsed, pStatus, pOutcome>>
    /\ UNCHANGED nonTask

\* extract_file_async returns its result
TaskReturns ==
    /\ aState = "PROCESSING"
    /\ aState' = "SUCCESS"
    /\ rLast' = NoAnswer
    /\ UNCHANGED <<pMaxWait, pInterval, pElapsed, pStatus, pOutcome>>
    /\ UNCHANGED nonTask

\* extract_file_async re-raises what went wrong
TaskRaises ==
    /\ aState = "PROCESSING"
    /\ aState' = "FAILURE"
    /\ rLast' = NoAnswer
    /\ UNCHANGED <<pMaxWait, pInterval, pElapsed, pStatus, pOutcome>>
    /\ UNCHANGED nonTask

\* any client asks for the result
GetTaskResult ==
    /\ rLast' = get_task_result(aState)
    /\ UNCHANGED <<aState, pMaxWait, pInterval, pElapsed, pStatus, pOutcome>>
    /\ UNCHANGED nonTask

\* time passes while a request is on its way
Elapse ==
    /\ pOutcome = "none"
    /\ pElapsed < pMaxWait
    /\ pElapsed' = pElapsed + 1
    /\ rLast' = NoAnswer
    /\ UNCHANGED <<aState, pMaxWait, pInterval, pStatus, pOutcome>>
    /\ UNCHANGED nonTask

\* one turn of the while loop of wait_for_result: check_status, then
\* get_result, raise, or time.sleep(poll_interval)
wait_for_result_Poll ==
    LET status == get_task_status(aState)
        result == get_task_result(aState)
    IN  /\ pOutcome = "none"
        /\ pElapsed < pMaxWait
        /\ pStatus' = status.status
        /\ pOutcome' = IF status.status = "completed"
                       THEN (IF RaisesForStatus(result.code) THEN "raised" ELSE "returned")
                       ELSE IF status.status = "failed" THEN "raised"
                       ELSE "none"
        /\ pElapsed' = IF status.status \in {"completed", "failed"}
                       THEN pElapsed ELSE pElapsed + pInterval
        /\ rLast' = NoAnswer
        /\ UNCHANGED <<aState, pMaxWait, pInterval>>
        /\ UNCHANGED nonTask

\* the loop condition fails: raise TimeoutError
wait_for_result_TimesOut ==
    /\ pOutcome = "none"
    /\ pElapsed >= pMaxWait
    /\ pOutcome' = "timeout"
    /\ rLast' = NoAnswer
    /\ UNCHANGED <<aState, pMaxWait, pInterval, pElapsed, pStatus>>
    /\ UNCHANGED nonTask

NextTask ==
    \/ WorkerStarts
    \/ UpdateState
    \/ TaskReturns
    \/ TaskRaises
    \/ GetTaskResult
    \/ Elapse
    \/ wait_for_result_Poll
    \/ wait_for_result_TimesOut

(***************************************************************************)
(* The upload endpoints POST /extract/hwp-to-json, POST /async/submit and  *)
(* POST /convert/hwp-to-pdf, and HWPConverter.convert                      *)
(* (app/api/v1/endpoints/extract.py, async_extract.py, convert.py,         *)
(*  app/services/hwp_converter.py, app/core/config.py)                     *)
(***************************************************************************)
MAX_FILE_SIZE == 10 * MiB       \* settings.MAX_FILE_SIZE
MAX_UPLOAD_SIZE == 10 * MiB     \* settings.MAX_UPLOAD_SIZE

UploadSizes == {1, MAX_FILE_SIZE, MAX_FILE_SIZE + 1}

\* str(e) of what a parser, a library or the file system raises
ExceptionTexts == {"zlib.error: Error -3 while decompressing data",
                   "OSError: [Errno 28] No space left on device"}

\* what HWPConverter.convert meets:
\*   parse        HWPParser.parse returns or raises
\*   generate     PDFGenerator.generate_from_hwp_content writes the PDF and
\*                returns True, or returns False
\*   libreoffice  the office suite is absent, or its run writes the PDF and
\*                exits 0, exits 0 without writing it, exits non-zero, or
\*                outlasts the timeout
\*   error_pdf    _create_error_pdf writes the PDF or raises
ConvertEnvs ==
    [parse : {"returns", "raises"},
     generate : {"written", "false"},
     libreoffice : {"absent", "written", "exit0_nofile", "nonzero", "timeout"},
     error_pdf : {"written", "raises"}]

NoEnv == [parse |-> "none", generate |-> "none", libreoffice |-> "none", error_pdf |-> "none"]

\* HWPConverter.convert with output_path <file_id>.pdf in the output directory,
\* which is where the office suite itself writes, so nothing is renamed
convert(env) ==
    IF env.parse = "returns" /\ env.generate = "written"
    THEN [returned |-> TRUE, pdf |-> TRUE, raised |-> FALSE, tiers |-> <<"parse">>]
    ELSE IF env.libreoffice \in {"written", "exit0_nofile"}
    THEN [returned |-> TRUE, pdf |-> env.libreoffice = "written", raised |-> FALSE,
          tiers |-> <<"parse", "libreoffice">>]
    ELSE IF env.error_pdf = "written"
    THEN [returned |-> TRUE, pdf |-> TRUE, raised |-> FALSE,
          tiers |-> IF env.libreoffice = "absent" THEN <<"parse", "error_pdf">>
                    ELSE <<"parse", "libreoffice", "error_pdf">>]
    ELSE [returned |-> FALSE, pdf |-> FALSE, raised |-> FALSE,
          tiers |-> IF env.libreoffice = "absent" THEN <<"parse", "error_pdf">>
                    ELSE <<"parse", "libreoffice", "error_pdf">>]

NoConversion == [returned |-> FALSE, pdf |-> FALSE, raised |-> FALSE, tiers |-> <<>>]

\* the answer's detail: its fixed wording and the exception text put into it
Detail(wording, exc) == [wording |-> wording, exc |-> exc]

Answer(endpoint, size, cause, status, detail, temp, work, env) ==
    [endpoint |-> endpoint, size |-> size, cause |-> cause, status |-> status,
     detail |-> detail, temp_written |-> temp, work_begun |-> work,
     env |-> env, conversion |-> IF work /\ endpoint = "convert" THEN convert(env) ELSE NoConversion]

NoUpload ==
    [endpoint |-> "none", size |-> 0, cause |-> "none", status |-> 0,
     detail |-> Detail("none", None), temp_written |-> FALSE, work_begun |-> FALSE,
     env |-> NoEnv, conversion |-> NoConversion]

EndpointIdle == eLast = NoUpload

\* POST /extract/hwp-to-json; met: how validation and parsing go
extract_hwp_to_json(ext_ok, size, met, text) ==
    /\ eLast' =
         IF ~ext_ok
         THEN Answer("extract", size, "extension", 400,
                     Detail("File must be HWP, HWPX, or PDF format", None), FALSE, FALSE, NoEnv)
         ELSE IF size > MAX_FILE_SIZE
         THEN Answer("extract", size, "too_large", 413,
                     Detail("File too large. Maximum size: ", None), FALSE, FALSE, NoEnv)
         ELSE IF met = "invalid"
         THEN Answer("extract", size, "validation", 500,
                     Detail("Extraction failed: 400: File validation failed: ", None),
                     TRUE, FALSE, NoEnv)
         ELSE IF met = "raises"
         THEN Answer("extract", size, "unexpected", 500,
                     Detail("Extraction failed: ", text), TRUE, TRUE, NoEnv)
         ELSE Answer("extract", size, "none", 200,
                     Detail("Content extracted successfully", None), TRUE, TRUE, NoEnv)
    /\ UNCHANGED nonEndpoint

\* POST /async/submit
submit_extraction(ext_ok, size, type_ok) ==
    /\ eLast' =
         IF ~ext_ok
         THEN Answer("submit", size, "extension", 400,
                     Detail("File must be HWP, HWPX, or PDF format", None), FALSE, FALSE, NoEnv)
         ELSE IF size > MAX_FILE_SIZE
         THEN Answer("submit", size, "too_large", 413,
                     Detail("File too large. Maximum size: ", None), FALSE, FALSE, NoEnv)
         ELSE IF ~type_ok
         THEN Answer("submit", size, "extraction_type", 400,
                     Detail("Invalid extraction type. Must be 'json', 'text', or 'markdown'", None),
                     FALSE, FALSE, NoEnv)
         ELSE Answer("submit", size, "none", 200,
                     Detail("Task submitted successfully", None), FALSE, FALSE, NoEnv)
    /\ UNCHANGED nonEndpoint

\* POST /convert/hwp-to-pdf; saved: whether writing the upload to input_path works
convert_hwp_to_pdf(ext_ok, size, saved, text, env) ==
    /\ eLast' =
         IF ~ext_ok
         THEN Answer("convert", size, "extension", 400,
                     Detail("Invalid file type. Allowed types: ", None), FALSE, FALSE, NoEnv)
         ELSE IF size > MAX_UPLOAD_SIZE
         THEN Answer("convert", size, "too_large", 400,
                     Detail("File too large. Maximum size: ", None), FALSE, FALSE, NoEnv)
         ELSE IF ~saved
         THEN Answer("convert", size, "unexpected", 500,
                     Detail("Conversion error: ", text), FALSE, FALSE, NoEnv)
         ELSE IF ~convert(env).returned
         THEN Answer("convert", size, "conversion", 500,
                     Detail("Conversion error: 500: Conversion failed", None), TRUE, TRUE, env)
         ELSE Answer("convert", size, "none", 200,
                     Detail("application/pdf", None), TRUE, TRUE, env)
    /\ UNCHANGED nonEndpoint

NextEndpoint ==
    \/ \E e \in BOOLEAN, s \in UploadSizes, m \in {"fine", "invalid", "raises"},
          t \in ExceptionTexts : extract_hwp_to_json(e, s, m, t)
    \/ \E e \in BOOLEAN, s \in UploadSizes, t \in BOOLEAN : submit_extraction(e, s, t)
    \/ \E e \in BOOLEAN, s \in UploadSizes, w \in BOOLEAN, t \in ExceptionTexts,
          env \in ConvertEnvs : convert_hwp_to_pdf(e, s, w, t, env)

(***************************************************************************)
(* TextExtractor.extract_structured and _extract_plain_text                *)
(* (app/services/text_extractor.py)                                        *)
(* A string is the sequence of its pieces; the separators the code joins   *)
(* with are pieces of their own.                                           *)
(***************************************************************************)
MaxParagraphs == 2      \* the most paragraphs in a parsed content

BlankLine == "\n\n"
Pipe == " | "

ParagraphTexts == {<<>>, <<"ga">>, <<"na">>, <<"da">>}
ParagraphSeqs == UNION {[1..n -> ParagraphTexts] : n \in 0..MaxParagraphs}

\* no table, or one table of one row of two cells
TableSeqs == {<<>>, <<[rows |-> << <<"c1", "c2">> >>]>>}

\* the "text" key of the parsed content when it is absent
AbsentText == <<"absent">>

NotExtracted == <<"not extracted">>

\* sep.join(parts) for parts that are sequences of pieces
RECURSIVE Join(_, _)
Join(sep, parts) ==
    IF parts = <<>> THEN <<>>
    ELSE IF Len(parts) = 1 THEN parts[1]
    ELSE parts[1] \o <<sep>> \o Join(sep, Tail(parts))

\* filter(None, parts): the empty strings are dropped
FilterNone(parts) == SelectSeq(parts, LAMBDA p : p # <<>>)

\* " | ".join(str(cell) for cell in row), one entry per row of every table
RECURSIVE RowLines(_)
RowLines(tables) ==
    IF tables = <<>> THEN <<>>
    ELSE [i \in 1..Len(tables[1].rows) |-> Join(Pipe, [j \in 1..Len(tables[1].rows[i]) |->
                                                      <<tables[1].rows[i][j]>>])]
         \o RowLines(Tail(tables))

extract_plain_text(content) ==
    Join(BlankLine,
         FilterNone(content.paragraphs \o RowLines(content.tables)
                    \o (IF content.text # AbsentText THEN <<content.text>> ELSE <<>>)))

ExtractIdle ==
    /\ xParsed = [paragraphs |-> <<>>, tables |-> <<>>, text |-> AbsentText]
    /\ xText = NotExtracted

\* a parsed content whose text, when it has one, is the text of its paragraphs
ExtractInputs ==
    /\ xParsed \in [paragraphs : ParagraphSeqs, tables : TableSeqs,
                    text : {AbsentText} \cup {Join(BlankLine, FilterNone(ps)) : ps \in ParagraphSeqs}]
    /\ xParsed.text \in {AbsentText, Join(BlankLine, FilterNone(xParsed.paragraphs))}
    /\ xText = NotExtracted

\* result["text"] = self._extract_plain_text(parsed_content)
extract_structured ==
    /\ xText = NotExtracted
    /\ xText' = extract_plain_text(xParsed)
    /\ UNCHANGED xParsed
    /\ UNCHANGED nonExtract

NextExtract == extract_structured

(***************************************************************************)
(* clean_hwp_text and its steps (app/services/enhanced_hwp_parser.py)      *)
(* A text is the sequence of its code points.                              *)
(***************************************************************************)
MaxBlocks == 4      \* the most blocks a text given is made of

InRanges(c, ranges) == \E r \in ranges : r[1] <= c /\ c <= r[2]

ALLOWED_UNICODE_RANGES ==
    {<<32, 126>>, <<160, 255>>, <<8192, 8303>>, <<8592, 8703>>, <<8704, 8959>>,
     <<9312, 9471>>, <<12288, 12351>>, <<12592, 12687>>, <<44032, 55203>>, <<65281, 65374>>}

\* every pattern is one character class, so removing their matches one
\* pattern after the other removes the characters of their union
BINARY_NOISE_PATTERNS ==
    {<<16384, 20479>>, <<32768, 32831>>, <<34816, 34879>>, <<35072, 35135>>,
     <<1024, 1279>>, <<256, 383>>, <<384, 591>>, <<2112, 2143>>, <<2304, 2431>>,
     <<57344, 63743>>, <<0, 31>>, <<127, 159>>, <<65520, 65535>>,
     <<36096, 36159>>, <<35840, 35903>>, <<25408, 25471>>, <<21184, 21247>>}

Upper == 65..90
Lower == 97..122
Digits == 48..57
\* #$%&*+-=<>?!@'"
Symbols == {35, 36, 37, 38, 42, 43, 45, 61, 60, 62, 63, 33, 64, 39, 34}
\* 0-9#$%&*+-=
DigitSymbols == Digits \cup {35, 36, 37, 38, 42, 43, 45, 61}
\* ()[]{}
Brackets == {40, 41, 91, 93, 123, 125}
\* ,.
CommaDot == {44, 46}
\* A-Za-z0-9#$%&*+-=<>?!@'"(){}[],.;:
NoHangulRun == Upper \cup Lower \cup Digits \cup Symbols \cup Brackets \cup CommaDot \cup {59, 58}
\* #$%&*+=-<>?!@'"()[]{}.,;:
TokenSymbols == Symbols \cup Brackets \cup CommaDot \cup {59, 58}
\* . , - : /
Separators == {46, 44, 45, 58, 47}
\* the bullets and arrows kept as tokens of their own
KeptMarks == {9675, 9679, 9678, 9651, 9650, 9633, 9632, 8251, 9742, 8594, 8592, 8596, 8658}
\* str.isspace
Whitespace == {9, 10, 11, 12, 13, 28, 29, 30, 31, 32, 133, 160, 5760, 8232, 8233, 8239, 8287, 12288}
                  \cup (8192..8202)

is_valid_korean_char(c) == (44032 <= c /\ c <= 55203) \/ (12592 <= c /\ c <= 12687)

is_allowed_char(c) == InRanges(c, ALLOWED_UNICODE_RANGES) \/ c \in {10, 13, 9}

Count(s, Test(_)) == Cardinality({i \in 1..Len(s) : Test(s[i])})

IsSpace(c) == c \in Whitespace
IsAlnum(c) == c \in Upper \cup Lower \cup Digits \/ is_valid_korean_char(c)

\* the length of the longest prefix of s whose characters all go with first
RunLength(s, first, Same(_, _)) ==
    LET ks == {k \in 0..Len(s) : \A i \in 1..k : Same(first, s[i])}
    IN  CHOOSE k \in ks : \A j \in ks : j <= k

\* pattern.sub('', text) for a pattern [class]{n,}: every longest run of at
\* least n characters of the class is removed
RECURSIVE RemoveClassRuns(_, _, _)
RemoveClassRuns(s, class, n) ==
    IF s = <<>> THEN <<>>
    ELSE LET k == RunLength(s, s[1], LAMBDA a, b : a \in class /\ b \in class)
         IN  IF k >= n
             THEN RemoveClassRuns(SubSeq(s, k + 1, Len(s)), class, n)
             ELSE <<s[1]>> \o RemoveClassRuns(Tail(s), class, n)

\* (.)\1{3,} : a character, but the line feed, four times or more in a row
RECURSIVE RemoveRepeats(_)
RemoveRepeats(s) ==
    IF s = <<>> THEN <<>>
    ELSE LET k == RunLength(s, s[1], LAMBDA a, b : a = b /\ a # 10)
         IN  IF k >= 4
             THEN RemoveRepeats(SubSeq(s, k + 1, Len(s)))
             ELSE <<s[1]>> \o RemoveRepeats(Tail(s))

remove_ascii_noise(text) ==
    LET p1 == RemoveRepeats(text)
        p2 == RemoveClassRuns(p1, Upper, 8)
        p3 == RemoveClassRuns(p2, Lower, 10)
        p4 == RemoveClassRuns(p3, Upper \cup Lower, 15)
        p5 == RemoveClassRuns(p4, Symbols, 3)
        p6 == RemoveClassRuns(p5, DigitSymbols, 10)
        p7 == RemoveClassRuns(p6, Brackets, 3)
        p8 == RemoveClassRuns(p7, CommaDot, 3)
    IN  RemoveClassRuns(p8, NoHangulRun, 30)

\* a run of more than ten characters that are not Hangul is dropped
RECURSIVE split_and_clean_chunks(_)
split_and_clean_chunks(text) ==
    IF text = <<>> THEN <<>>
    ELSE LET k == RunLength(text, text[1],
                            LAMBDA a, b : ~is_valid_korean_char(a) /\ ~is_valid_korean_char(b))
         IN  IF k > 10
             THEN split_and_clean_chunks(SubSeq(text, k + 1, Len(text)))
             ELSE <<text[1]>> \o split_and_clean_chunks(Tail(text))

\* result.split(): the pieces between runs of whitespace
RECURSIVE Split(_)
Split(s) ==
    IF s = <<>> THEN <<>>
    ELSE IF IsSpace(s[1]) THEN Split(Tail(s))
    ELSE LET k == RunLength(s, s[1], LAMBDA a, b : ~IsSpace(b))
         IN  <<SubSeq(s, 1, k)>> \o Split(SubSeq(s, k + 1, Len(s)))

\* ' '.join(tokens)
RECURSIVE JoinTokens(_)
JoinTokens(tokens) ==
    IF tokens = <<>> THEN <<>>
    ELSE IF Len(tokens) = 1 THEN tokens[1]
    ELSE tokens[1] \o <<32>> \o JoinTokens(Tail(tokens))

is_meaningful_token(token) ==
    LET korean_count == Count(token, is_valid_korean_char)
        unique_chars == Cardinality({token[i] : i \in 1..Len(token)})
        stripped == SelectSeq(token, LAMBDA c : c \notin Separators)
    IN  IF token = <<>> THEN FALSE
        ELSE IF korean_count > 0
        THEN ~(Len(token) > 10 /\ 10 * korean_count < Len(token))
        ELSE IF Len(token) > 10 THEN FALSE
        ELSE IF Len(token) > 4 /\ 2 * unique_chars < Len(token) THEN FALSE
        ELSE IF \A i \in 1..Len(token) : token[i] \in Digits THEN TRUE
        ELSE IF stripped # <<>> /\ (\A i \in 1..Len(stripped) : IsAlnum(stripped[i]))
                /\ Len(stripped) <= 10 THEN TRUE
        ELSE IF \A i \in 1..Len(token) : token[i] \in TokenSymbols THEN Len(token) <= 2
        ELSE FALSE

\* min_korean_ratio = 0.05
is_garbage_chunk(text) ==
    LET korean_count == Count(text, is_valid_korean_char)
        non_space == Count(text, LAMBDA c : ~IsSpace(c))
    IN  \/ Len(text) < 10
        \/ non_space = 0
        \/ 20 * korean_count < non_space

\* re.sub(r'[ \t]+', ' ', result) and result.strip(), on a text without line feeds
RECURSIVE SqueezeBlanks(_)
SqueezeBlanks(s) ==
    IF s = <<>> THEN <<>>
    ELSE IF s[1] \in {32, 9}
    THEN <<32>> \o SqueezeBlanks(SubSeq(s, RunLength(s, s[1], LAMBDA a, b : b \in {32, 9}) + 1, Len(s)))
    ELSE <<s[1]>> \o SqueezeBlanks(Tail(s))

RECURSIVE Strip(_)
Strip(s) ==
    IF s = <<>> THEN <<>>
    ELSE IF IsSpace(s[1]) THEN Strip(Tail(s))
    ELSE IF IsSpace(s[Len(s)]) THEN Strip(SubSeq(s, 1, Len(s) - 1))
    ELSE s

clean_hwp_text(text) ==
    LET step1 == SelectSeq(text, LAMBDA c : ~InRanges(c, BINARY_NOISE_PATTERNS))
        step15 == remove_ascii_noise(step1)
        step17 == split_and_clean_chunks(step15)
        kept == SelectSeq(step17, LAMBDA c : is_allowed_char(c) \/ IsSpace(c))
        step2 == [i \in 1..Len(kept) |-> IF is_allowed_char(kept[i]) THEN kept[i] ELSE 32]
        tokens == Split(step2)
        step3 == JoinTokens(SelectSeq(tokens,
                     LAMBDA t : is_meaningful_token(t) \/ (Len(t) = 1 /\ t[1] \in KeptMarks)))
    IN  IF text = <<>> THEN <<>>
        ELSE IF is_garbage_chunk(step3) THEN <<>>
        ELSE Strip(SqueezeBlanks(step3))

\* the pieces the texts given are made of: ten different Hangul syllables,
\* three Hangul syllables, "aa", "###", a space, a Cyrillic letter and a
\* Han character outside every listed range
Blocks ==
    {<<44032, 45208, 45796, 46972, 47560, 48148, 49324, 50500, 51088, 52264>>,
     <<44032, 45208, 45796>>,
     <<97, 97>>,
     <<35, 35, 35>>,
     <<32>>,
     <<1046>>,
     <<28450>>}

RECURSIVE Concat(_)
Concat(blocks) == IF blocks = <<>> THEN <<>> ELSE blocks[1] \o Concat(Tail(blocks))

GivenTexts == {Concat(bs) : bs \in UNION {[1..n -> Blocks] : n \in 0..MaxBlocks}}

NotCleaned == <<0 - 1>>

CleanIdle ==
    /\ nText = <<>>
    /\ nOnce = NotCleaned
    /\ nTwice = NotCleaned

CleanInputs ==
    /\ nText \in GivenTexts
    /\ nOnce = NotCleaned
    /\ nTwice = NotCleaned

CleanOnce ==
    /\ nOnce = NotCleaned
    /\ nOnce' = clean_hwp_text(nText)
    /\ UNCHANGED <<nText, nTwice>>
    /\ UNCHANGED nonClean

\* the pipeline applied to its own output
CleanTwice ==
    /\ nOnce # NotCleaned
    /\ nTwice = NotCleaned
    /\ nTwice' = clean_hwp_text(nOnce)
    /\ UNCHANGED <<nText, nOnce>>
    /\ UNCHANGED nonClean

NextClean ==
    \/ CleanOnce
    \/ CleanTwice

(***************************************************************************)
(* HWPXParser.parse and _extract_sections (app/services/hwpx_parser.py)    *)
(***************************************************************************)
MaxSections == 3    \* the most Contents/sectionN.xml parts of a file

\* what reading a section part comes to: ET.fromstring returns its root,
\* ET.fromstring raises ParseError, or reading the part raises something else
SectionOutcomes == {"parses", "parse_error", "read_error"}

HwpxFiles ==
    [is_zip : BOOLEAN,
     sections : UNION {[1..n -> SectionOutcomes] : n \in 0..MaxSections},
     preview : BOOLEAN]

NotParsed == [raised |-> FALSE, returned |-> FALSE, total_sections |-> 0, text |-> "none"]

\* the roots _extract_sections returns: a ParseError skips the part, any
\* other exception ends the loop with the roots found so far
RECURSIVE extract_sections(_)
extract_sections(sections) ==
    IF sections = <<>> \/ sections[1] = "read_error" THEN <<>>
    ELSE IF sections[1] = "parse_error" THEN extract_sections(Tail(sections))
    ELSE <<sections[1]>> \o extract_sections(Tail(sections))

\* the result of parse; the text of a parsed section is longer than the preview
hwpx_parse(file) ==
    LET sections_data == extract_sections(file.sections)
    IN  IF ~file.is_zip
        THEN [raised |-> TRUE, returned |-> FALSE, total_sections |-> 0, text |-> "none"]
        ELSE [raised |-> FALSE, returned |-> TRUE, total_sections |-> Len(sections_data),
              text |-> IF sections_data # <<>> THEN "sections"
                       ELSE IF file.preview THEN "preview" ELSE "empty"]

HwpxIdle ==
    /\ hFile = [is_zip |-> FALSE, sections |-> <<>>, preview |-> FALSE]
    /\ hResult = NotParsed

HwpxInputs ==
    /\ hFile \in HwpxFiles
    /\ hResult = NotParsed

HwpxParse ==
    /\ hResult = NotParsed
    /\ hResult' = hwpx_parse(hFile)
    /\ UNCHANGED hFile
    /\ UNCHANGED nonHwpx

NextHwpx == HwpxParse

(***************************************************************************)
(* POST /stream/extract: stream_extract keeps the upload in a temporary    *)
(* file for the length of "async with save_uploaded_file_stream(...)"      *)
(* (app/api/v1/endpoints/stream_extract.py, app/services/stream_parser.py) *)
(***************************************************************************)
MaxUploadChunks == 3    \* the most chunks an upload is made of
MaxCeilingChunks == 3   \* the largest max_file_size, in chunks

Extensions == {"hwp", "hwpx", "pdf", "txt", "exe"}
StreamedExtensions == {"hwp", "hwpx", "pdf", "txt"}

\* body: "none" when no streamed body is produced, else "producing",
\* "complete" or "failed"
NoStreamResponse == [status |-> 0, body |-> "none", saved |-> FALSE]

SxIdle ==
    /\ sExt = "hwp"
    /\ sChunks = 0
    /\ sCeiling = 1
    /\ sWritten = 0
    /\ sFile = "none"
    /\ sPc = "start"
    /\ sResp = NoStreamResponse

SxInputs ==
    /\ sExt \in Extensions
    /\ sChunks \in 0..MaxUploadChunks
    /\ sCeiling \in 1..MaxCeilingChunks
    /\ sWritten = 0
    /\ sFile = "none"
    /\ sPc = "start"
    /\ sResp = NoStreamResponse

\* the extension is not one of hwp, hwpx, pdf, txt: HTTPException(400)
SxRejectExtension ==
    /\ sPc = "start"
    /\ sExt \notin StreamedExtensions
    /\ sResp' = [status |-> 400, body |-> "none", saved |-> FALSE]
    /\ sPc' = "done"
    /\ UNCHANGED <<sExt, sChunks, sCeiling, sWritten, sFile>>
    /\ UNCHANGED nonSx

\* entering the context manager: tempfile.NamedTemporaryFile(delete=False)
SxCreateTempFile ==
    /\ sPc = "start"
    /\ sExt \in StreamedExtensions
    /\ sFile' = "exists"
    /\ sPc' = "saving"
    /\ UNCHANGED <<sExt, sChunks, sCeiling, sWritten, sResp>>
    /\ UNCHANGED nonSx

\* one turn of "async for chunk in file_stream": past the ceiling
\* FileTooLargeError is raised, the finally removes the file and the request
\* is answered 413
SxWriteChunk ==
    /\ sPc = "saving"
    /\ sWritten < sChunks
    /\ IF sWritten + 1 > sCeiling
       THEN /\ sFile' = "removed"
            /\ sResp' = [status |-> 413, body |-> "none", saved |-> FALSE]
            /\ sPc' = "done"
            /\ UNCHANGED sWritten
       ELSE /\ sWritten' = sWritten + 1
            /\ UNCHANGED <<sFile, sResp, sPc>>
    /\ UNCHANGED <<sExt, sChunks, sCeiling>>
    /\ UNCHANGED nonSx

\* the upload is exhausted: the context manager yields temp_file_path
SxSaved ==
    /\ sPc = "saving"
    /\ sWritten = sChunks
    /\ sPc' = "saved"
    /\ UNCHANGED <<sExt, sChunks, sCeiling, sWritten, sFile, sResp>>
    /\ UNCHANGED nonSx

\* the body of the "async with": parser.parse_file_chunks(temp_path) is called
\* without its file_type argument and raises TypeError; leaving the context
\* runs the finally, which removes the file, and the request is answered 500
\* by general_exception_handler. No StreamingResponse is made.
SxBodyOfWith ==
    /\ sPc = "saved"
    /\ sFile' = "removed"
    /\ sResp' = [status |-> 500, body |-> "none", saved |-> TRUE]
    /\ sPc' = "done"
    /\ UNCHANGED <<sExt, sChunks, sCeiling, sWritten>>
    /\ UNCHANGED nonSx

NextSx ==
    \/ SxRejectExtension
    \/ SxCreateTempFile
    \/ SxWriteChunk
    \/ SxSaved
    \/ SxBodyOfWith

(***************************************************************************)
(* ChunkedTextExtractor.extract_chunked (app/utils/streaming.py)           *)
(* A text is the sequence of its characters; positions count from 0.       *)
(***************************************************************************)
MaxTextLen == 5     \* the longest text given
MaxChunkLen == 3    \* the largest chunk_size

TextChars == {"a", "\n", ".", " "}
ChunkedTexts == UNION {[1..n -> TextChars] : n \in 0..MaxTextLen}

\* str.rfind: the last position where the pattern starts, or -1
RFind(s, pattern) ==
    LET at == {j \in 0..(Len(s) - Len(pattern)) :
                  \A k \in 1..Len(pattern) : s[j + k] = pattern[k]}
    IN  IF at = {} THEN 0 - 1 ELSE CHOOSE j \in at : \A k \in at : k <= j

\* the break the loop looks for in a chunk: the last line feed, else the
\* last ". "
LastBreak(chunk) ==
    IF RFind(chunk, <<"\n">>) # 0 - 1 THEN RFind(chunk, <<"\n">>)
    ELSE RFind(chunk, <<".", " ">>)

ChunkedIdle ==
    /\ chInput = <<>>
    /\ chSize = 1
    /\ chText = <<>>
    /\ chI = 0
    /\ chYielded = <<>>
    /\ chPc = "done"

ChunkedInputs ==
    /\ chInput \in ChunkedTexts
    /\ chSize \in 1..MaxChunkLen
    /\ chText = chInput
    /\ chI = 0
    /\ chYielded = <<>>
    /\ chPc = "looping"

\* one turn of "for i in range(0, len(text), self.chunk_size)": the range was
\* made from the length of the text given, the slices are of the local text
extract_chunked_Turn ==
    LET chunk == Slice(chText, chI, chI + chSize)
        last_break == LastBreak(chunk)
        cut == last_break # 0 - 1 /\ chI + chSize < Len(chText)
    IN  /\ chPc = "looping"
        /\ chI < Len(chInput)
        /\ chYielded' = Append(chYielded, IF cut THEN Slice(chunk, 0, last_break + 1) ELSE chunk)
        /\ chText' = IF cut
                     THEN Slice(chunk, last_break + 1, Len(chunk))
                          \o Slice(chText, chI + chSize, Len(chText))
                     ELSE chText
        /\ chI' = chI + chSize
        /\ UNCHANGED <<chInput, chSize, chPc>>
        /\ UNCHANGED nonChunked

\* the range is exhausted: the generator ends
extract_chunked_Ends ==
    /\ chPc = "looping"
    /\ chI >= Len(chInput)
    /\ chPc' = "done"
    /\ UNCHANGED <<chInput, chSize, chText, chI, chYielded>>
    /\ UNCHANGED nonChunked

NextChunked ==
    \/ extract_chunked_Turn
    \/ extract_chunked_Ends

(***************************************************************************)
(* VirusScanner.scan_file_async and FileValidator.validate_file_async      *)
(* (app/utils/virus_scanner.py, app/utils/file_validator.py).  A file is   *)
(* what the scanner reads of it: the digest calculate_file_hash returns,   *)
(* the patterns found in its first MiB, and whether it can be read.        *)
(***************************************************************************)
EmptyFileDigest == "e3b0c44298fc1c14"   \* the listed digests, shortened
TestMalwareDigest == "5d41402abc4b2a76"
KNOWN_MALICIOUS_HASHES == {EmptyFileDigest, TestMalwareDigest}
Digests == KNOWN_MALICIOUS_HASHES \union {"2c26b46b68ffc68f"}

SUSPICIOUS_PATTERNS == <<"EICAR", "X5O!P%@AP", "malware", "virus">>

ScannedFiles ==
    [digest : Digests,
     contains : SUBSET {SUSPICIOUS_PATTERNS[i] : i \in 1..Len(SUSPICIOUS_PATTERNS)},
     readable : BOOLEAN]

\* the first check of validate_file_async that fails, "none" if all pass
EarlyChecks == {"none", "extension", "size", "mime", "structure"}

ValidateCalls ==
    [failing : EarlyChecks, dangerous : BOOLEAN, enable_virus_scan : BOOLEAN]

NotScanned == [status |-> "not scanned", threats |-> <<>>]
NotValidated ==
    [valid |-> FALSE, errors |-> <<>>, warnings |-> <<>>,
     virus_scan |-> NotScanned, raised |-> FALSE, returned |-> FALSE]

check_known_malware(file_hash) == file_hash \in KNOWN_MALICIOUS_HASHES

\* the patterns found, in the order of SUSPICIOUS_PATTERNS; a file that
\* cannot be read gives none
scan_for_patterns(file) ==
    IF file.readable
    THEN SelectSeq(SUSPICIOUS_PATTERNS, LAMBDA p : p \in file.contains)
    ELSE <<>>

PatternThreats(patterns) ==
    [i \in 1..Len(patterns) |->
        [type |-> "pattern_match", name |-> patterns[i], severity |-> "medium"]]

KnownMalwareThreat ==
    [type |-> "known_malware", name |-> "Test.Malware.Generic", severity |-> "high"]

\* the result of scan_file_async: status starts "clean", a listed digest
\* sets it to "infected", then any pattern found sets it to "suspicious";
\* an exception of calculate_file_hash leaves what was set and gives "error"
scan_file_async(file) ==
    IF ~file.readable
    THEN [status |-> "error", threats |-> <<>>]
    ELSE LET known == check_known_malware(file.digest)
             afterHash == IF known THEN "infected" ELSE "clean"
             patterns == scan_for_patterns(file)
         IN  [status |-> IF patterns # <<>> THEN "suspicious" ELSE afterHash,
              threats |-> (IF known THEN <<KnownMalwareThreat>> ELSE <<>>)
                              \o PatternThreats(patterns)]

\* the result of validate_file_async: the early checks return on the first
\* failure, scan_for_threats only warns, "infected" returns with an error,
\* "suspicious" warns, and valid is set at the end from the errors
validate_file_async(file, call) ==
    LET rejected(error) ==
            [NotValidated EXCEPT !.errors = <<error>>, !.returned = TRUE]
        threatWarnings == IF call.dangerous THEN <<"dangerous pattern">> ELSE <<>>
        scan == scan_file_async(file)
    IN  IF call.failing # "none" THEN rejected(call.failing)
        ELSE IF ~call.enable_virus_scan
        THEN IF file.readable
             THEN [NotValidated EXCEPT !.valid = TRUE, !.warnings = threatWarnings,
                                       !.returned = TRUE]
             ELSE [NotValidated EXCEPT !.warnings = threatWarnings, !.raised = TRUE]
        ELSE IF scan.status = "infected"
        THEN [NotValidated EXCEPT !.errors = <<"Virus detected">>,
                                  !.warnings = threatWarnings,
                                  !.virus_scan = scan, !.returned = TRUE]
        ELSE LET warnings ==
                     IF scan.status = "suspicious"
                     THEN threatWarnings \o <<"Suspicious content">>
                     ELSE threatWarnings
             IN  IF file.readable
                 THEN [NotValidated EXCEPT !.valid = TRUE, !.warnings = warnings,
                                           !.virus_scan = scan, !.returned = TRUE]
                 ELSE [NotValidated EXCEPT !.warnings = warnings,
                                           !.virus_scan = scan, !.raised = TRUE]

ScanIdle ==
    /\ vFile = [digest |-> EmptyFileDigest, contains |-> {}, readable |-> TRUE]
    /\ vCall = [failing |-> "none", dangerous |-> FALSE, enable_virus_scan |-> TRUE]
    /\ scan_count = 0
    /\ vScan = NotScanned
    /\ vResult = NotValidated

ScanInputs ==
    /\ vFile \in ScannedFiles
    /\ vCall \in ValidateCalls
    /\ scan_count = 0
    /\ vScan = NotScanned
    /\ vResult = NotValidated

\* a direct call of virus_scanner.scan_file_async(file_path)
ScanFileAsync ==
    /\ vScan = NotScanned
    /\ ~vResult.returned /\ ~vResult.raised
    /\ scan_count' = scan_count + 1
    /\ vScan' = scan_file_async(vFile)
    /\ UNCHANGED <<vFile, vCall, vResult>>
    /\ UNCHANGED nonScan

\* a call of file_validator.validate_file_async(file_path, filename, enable)
ValidateFileAsync ==
    /\ vScan = NotScanned
    /\ ~vResult.returned /\ ~vResult.raised
    /\ vResult' = validate_file_async(vFile, vCall)
    /\ IF vCall.failing = "none" /\ vCall.enable_virus_scan
       THEN /\ scan_count' = scan_count + 1
            /\ vScan' = scan_file_async(vFile)
       ELSE UNCHANGED <<scan_count, vScan>>
    /\ UNCHANGED <<vFile, vCall>>
    /\ UNCHANGED nonScan

NextScan == ScanFileAsync \/ ValidateFileAsync

(***************************************************************************)
(* Specifications: one per subsystem, the others standing still            *)
(***************************************************************************)
InitAuth == AuthIdle /\ RateIdle /\ ConcIdle /\ StreamIdle /\ ParseIdle /\ FrameIdle /\ KeyIdle /\ TtlIdle /\ CacheIdle /\ WrapIdle /\ TaskIdle /\ EndpointIdle /\ ExtractIdle /\ CleanIdle /\ HwpxIdle /\ SxIdle /\ ChunkedIdle /\ ScanIdle
SpecAuth == InitAuth /\ [][NextAuth]_vars

InitRate == RateIdle /\ AuthIdle /\ ConcIdle /\ StreamIdle /\ ParseIdle /\ FrameIdle /\ KeyIdle /\ TtlIdle /\ CacheIdle /\ WrapIdle /\ TaskIdle /\ EndpointIdle /\ ExtractIdle /\ CleanIdle /\ HwpxIdle /\ SxIdle /\ ChunkedIdle /\ ScanIdle
SpecRate == InitRate /\ [][NextRate]_vars

InitConc == ConcIdle /\ AuthIdle /\ RateIdle /\ StreamIdle /\ ParseIdle /\ FrameIdle /\ KeyIdle /\ TtlIdle /\ CacheIdle /\ WrapIdle /\ TaskIdle /\ EndpointIdle /\ ExtractIdle /\ CleanIdle /\ HwpxIdle /\ SxIdle /\ ChunkedIdle /\ ScanIdle
SpecConc == InitConc /\ [][NextConc]_vars

InitStream == StreamInputs /\ AuthIdle /\ RateIdle /\ ConcIdle /\ ParseIdle /\ FrameIdle /\ KeyIdle /\ TtlIdle /\ CacheIdle /\ WrapIdle /\ TaskIdle /\ EndpointIdle /\ ExtractIdle /\ CleanIdle /\ HwpxIdle /\ SxIdle /\ ChunkedIdle /\ ScanIdle
SpecStream == InitStream /\ [][NextStream]_vars

InitParse == ParseInputs /\ AuthIdle /\ RateIdle /\ ConcIdle /\ StreamIdle /\ FrameIdle /\ KeyIdle /\ TtlIdle /\ CacheIdle /\ WrapIdle /\ TaskIdle /\ EndpointIdle /\ ExtractIdle /\ CleanIdle /\ HwpxIdle /\ SxIdle /\ ChunkedIdle /\ ScanIdle
SpecParse == InitParse /\ [][NextParse]_vars

InitFrame == FrameInputs /\ AuthIdle /\ RateIdle /\ ConcIdle /\ StreamIdle /\ ParseIdle /\ KeyIdle /\ TtlIdle /\ CacheIdle /\ WrapIdle /\ TaskIdle /\ EndpointIdle /\ ExtractIdle /\ CleanIdle /\ HwpxIdle /\ SxIdle /\ ChunkedIdle /\ ScanIdle
SpecFrame == InitFrame /\ [][NextFrame]_vars

InitTruncated == TruncatedInputs /\ AuthIdle /\ RateIdle /\ ConcIdle /\ StreamIdle /\ ParseIdle /\ KeyIdle /\ TtlIdle /\ CacheIdle /\ WrapIdle /\ TaskIdle /\ EndpointIdle /\ ExtractIdle /\ CleanIdle /\ HwpxIdle /\ SxIdle /\ ChunkedIdle /\ ScanIdle
SpecTruncated == InitTruncated /\ [][NextFrame]_vars
SpecTruncatedFair == SpecTruncated /\ WF_vars(NextFrame)

InitKey == KeyInputs /\ AuthIdle /\ RateIdle /\ ConcIdle /\ StreamIdle /\ ParseIdle /\ FrameIdle /\ TtlIdle /\ CacheIdle /\ WrapIdle /\ TaskIdle /\ EndpointIdle /\ ExtractIdle /\ CleanIdle /\ HwpxIdle /\ SxIdle /\ ChunkedIdle /\ ScanIdle
SpecKey == InitKey /\ [][NextKey]_vars

InitTtl == TtlInputs /\ AuthIdle /\ RateIdle /\ ConcIdle /\ StreamIdle /\ ParseIdle /\ FrameIdle /\ KeyIdle /\ CacheIdle /\ WrapIdle /\ TaskIdle /\ EndpointIdle /\ ExtractIdle /\ CleanIdle /\ HwpxIdle /\ SxIdle /\ ChunkedIdle /\ ScanIdle
SpecTtl == InitTtl /\ [][NextTtl]_vars

InitCache == CacheInputs /\ AuthIdle /\ RateIdle /\ ConcIdle /\ StreamIdle /\ ParseIdle /\ FrameIdle /\ KeyIdle /\ TtlIdle /\ WrapIdle /\ TaskIdle /\ EndpointIdle /\ ExtractIdle /\ CleanIdle /\ HwpxIdle /\ SxIdle /\ ChunkedIdle /\ ScanIdle
SpecCache == InitCache /\ [][NextCache]_vars

InitWrap == WrapInputs /\ AuthIdle /\ RateIdle /\ ConcIdle /\ StreamIdle /\ ParseIdle /\ FrameIdle /\ KeyIdle /\ TtlIdle /\ TaskIdle /\ EndpointIdle /\ ExtractIdle /\ CleanIdle /\ HwpxIdle /\ SxIdle /\ ChunkedIdle /\ ScanIdle
SpecWrap == InitWrap /\ [][NextWrap]_vars

InitTask == TaskInputs /\ AuthIdle /\ RateIdle /\ ConcIdle /\ StreamIdle /\ ParseIdle /\ FrameIdle /\ KeyIdle /\ TtlIdle /\ CacheIdle /\ WrapIdle /\ EndpointIdle /\ ExtractIdle /\ CleanIdle /\ HwpxIdle /\ SxIdle /\ ChunkedIdle /\ ScanIdle
SpecTask == InitTask /\ [][NextTask]_vars

InitEndpoint == EndpointIdle /\ AuthIdle /\ RateIdle /\ ConcIdle /\ StreamIdle /\ ParseIdle /\ FrameIdle /\ KeyIdle /\ TtlIdle /\ CacheIdle /\ WrapIdle /\ TaskIdle /\ ExtractIdle /\ CleanIdle /\ HwpxIdle /\ SxIdle /\ ChunkedIdle /\ ScanIdle
SpecEndpoint == InitEndpoint /\ [][NextEndpoint]_vars

InitExtract == ExtractInputs /\ AuthIdle /\ RateIdle /\ ConcIdle /\ StreamIdle /\ ParseIdle /\ FrameIdle /\ KeyIdle /\ TtlIdle /\ CacheIdle /\ WrapIdle /\ TaskIdle /\ EndpointIdle /\ CleanIdle /\ HwpxIdle /\ SxIdle /\ ChunkedIdle /\ ScanIdle
SpecExtract == InitExtract /\ [][NextExtract]_vars

InitClean == CleanInputs /\ AuthIdle /\ RateIdle /\ ConcIdle /\ StreamIdle /\ ParseIdle /\ FrameIdle /\ KeyIdle /\ TtlIdle /\ CacheIdle /\ WrapIdle /\ TaskIdle /\ EndpointIdle /\ ExtractIdle /\ HwpxIdle /\ SxIdle /\ ChunkedIdle /\ ScanIdle
SpecClean == InitClean /\ [][NextClean]_vars

InitHwpx == HwpxInputs /\ AuthIdle /\ RateIdle /\ ConcIdle /\ StreamIdle /\ ParseIdle /\ FrameIdle /\ KeyIdle /\ TtlIdle /\ CacheIdle /\ WrapIdle /\ TaskIdle /\ EndpointIdle /\ ExtractIdle /\ CleanIdle /\ SxIdle /\ ChunkedIdle /\ ScanIdle
SpecHwpx == InitHwpx /\ [][NextHwpx]_vars

InitSx == SxInputs /\ AuthIdle /\ RateIdle /\ ConcIdle /\ StreamIdle /\ ParseIdle /\ FrameIdle /\ KeyIdle /\ TtlIdle /\ CacheIdle /\ WrapIdle /\ TaskIdle /\ EndpointIdle /\ ExtractIdle /\ CleanIdle /\ HwpxIdle /\ ChunkedIdle /\ ScanIdle
SpecSx == InitSx /\ [][NextSx]_vars

InitChunked == ChunkedInputs /\ AuthIdle /\ RateIdle /\ ConcIdle /\ StreamIdle /\ ParseIdle /\ FrameIdle /\ KeyIdle /\ TtlIdle /\ CacheIdle /\ WrapIdle /\ TaskIdle /\ EndpointIdle /\ ExtractIdle /\ CleanIdle /\ HwpxIdle /\ SxIdle /\ ScanIdle
SpecChunked == InitChunked /\ [][NextChunked]_vars

InitScan == ScanInputs /\ AuthIdle /\ RateIdle /\ ConcIdle /\ StreamIdle /\ ParseIdle /\ FrameIdle /\ KeyIdle /\ TtlIdle /\ CacheIdle /\ WrapIdle /\ TaskIdle /\ EndpointIdle /\ ExtractIdle /\ CleanIdle /\ HwpxIdle /\ SxIdle /\ ChunkedIdle
SpecScan == InitScan /\ [][NextScan]_vars

(***************************************************************************)
(* Claims                                                                  *)
(***************************************************************************)
\* the key row a served request carried, whichever header carried it
PresentedRow == IF authResp = NoResp \/ authResp.req.key = None THEN NoRow
                ELSE keys[authResp.req.key]

RateFirstCallsAdmitted ==
    \A c \in Clients :
        lastCall[c] # NoCall =>
            LET l == lastCall[c] IN
            /\ (l.idx <= RLLimit /\ l.at - l.first < WindowTicks) => l.ok
            /\ (l.idx = RLLimit + 1 /\ l.at - l.first < WindowTicks)
                   => (~l.ok /\ l.status = 429)

\* C2: for one client, RLLimit calls within the window all succeed, the next
\* call within the window is rejected with 429 and Retry-After R, and a call
\* made by that client R seconds after the rejection, with no call of that
\* client in between, succeeds.
C2_RetryAfterAllowsNextRequest ==
    /\ RateFirstCallsAdmitted
    /\ \A c \in Clients :
           (lastCall[c] # NoCall /\ lastCall[c].waited) => lastCall[c].ok

\* C3: at every instant, for every client, the admitted requests whose times
\* lie in the trailing window (now - window, now] number at most RLLimit,
\* whatever the interleaving of the clients' requests and of the sweep.
C3_WindowNeverExceedsLimit ==
    \A c \in Clients :
        Cardinality({i \in 1..Len(admitted[c]) :
                        admitted[c][i] > rlNow - WindowTicks}) <= RLLimit

\* a client is rejected with its window full while another client has been
\* admitted and the sweep has already dropped an idle client
C3_Witness ==
    \E c \in Clients, d \in Clients :
        /\ c # d
        /\ Len(admitted[c]) = RLLimit
        /\ lastCall[c] # NoCall /\ ~lastCall[c].ok
        /\ lastCall[d] # NoCall /\ lastCall[d].ok
        /\ d \notin DOMAIN clients

BodyTooLarge == SumTo(upChunks, Len(upChunks)) > upMax

\* the chunk with which the cumulative byte count first exceeds the ceiling
CrossingChunk ==
    CHOOSE i \in 1..Len(upChunks) :
        /\ SumTo(upChunks, i) > upMax
        /\ \A j \in 1..(i - 1) : SumTo(upChunks, j) <= upMax

\* C5: an upload whose cumulative byte count exceeds the ceiling is rejected
\* at the chunk that crosses the ceiling: it is never saved, no chunk after
\* the crossing one is read, never more than the ceiling is written, and after
\* the rejection the temporary file is gone.
C5_OversizedUploadRejectedAndRemoved ==
    BodyTooLarge =>
        /\ upPc \notin {"saved", "released"}
        /\ upPos <= CrossingChunk
        /\ upWritten <= upMax
        /\ upPos = CrossingChunk => upPc = "rejected"
        /\ upPc = "rejected" => (upPos = CrossingChunk /\ upFile = "absent")

\* an oversized body was rejected after part of it had been written, with
\* chunks still unread
C5_Witness ==
    /\ BodyTooLarge
    /\ upPc = "rejected"
    /\ upWritten > 0
    /\ upPos < Len(upChunks)
    /\ upFile = "absent"


(***************************************************************************)
(* Claims about EnhancedHWPParser.parse                                    *)
(***************************************************************************)
SmartFallback == "prvtext_smart_fallback"

PassedOver == 1..Len(dTried)

C7_ErrorsNameEverySkippedStrategy ==
    dPc = "returned" =>
        \A k \in PassedOver :
            \E e \in 1..Len(dResult.errors) : dResult.errors[e] = dTried[k].strategy

C9_ParseNeverRaises ==
    dExists =>
        /\ dPc # "raised"
        /\ (dPc = "returned" /\ Len(dTried) = NumStrategies) =>
              /\ dResult.method = "failed"
              /\ dResult.text = 0
              /\ dResult.errors = dErrors
        /\ \A k \in PassedOver :
              dTried[k].why = "raised" =>
                  \E e \in 1..Len(dErrors) : dErrors[e] = dTried[k].strategy

\* all four strategies passed over, one declining, one raising, one short
C9_Witness ==
    /\ dExists
    /\ dPc = "returned"
    /\ dResult.method = "failed"
    /\ \E k \in PassedOver : dTried[k].why = "raised"
    /\ \E k \in PassedOver : dTried[k].why = "declined"
    /\ \E k \in PassedOver : dTried[k].why = "short"


(***************************************************************************)
(* Claims about record framing                                             *)
(***************************************************************************)
\* C10: for a buffer that is a concatenation of well-formed records, each
\* framing loop visits the records in their original order and, for every
\* paragraph-text record, recovers exactly that record's body bytes, the body
\* of an extended-size record starting after the extra size word.
C10_FramingRecoversRecords ==
    fPc = "done" =>
        /\ Len(fVisited) = Len(fRecords)
        /\ \A k \in 1..Len(fVisited) :
              /\ k <= Len(fRecords)
              /\ fVisited[k].tag_id = fRecords[k].tag_id
              /\ fVisited[k].level = fRecords[k].level
              /\ fRecords[k].tag_id = HWPTAG_PARA_TEXT =>
                    fVisited[k].body = fRecords[k].body


\* C11: when the buffer ends in the middle of a record, the framer emits
\* no text from that trailing record, never reads outside the buffer, and
\* still returns every complete record that precedes it, in order.
C11_TruncatedTailDropped ==
    /\ fReadEnd <= Len(fData)
    /\ fPc = "done" =>
          /\ Len(fVisited) >= Len(fRecords)
          /\ \A k \in 1..Len(fVisited) :
                IF k <= Len(fRecords)
                THEN /\ fVisited[k].tag_id = fRecords[k].tag_id
                     /\ fRecords[k].tag_id = HWPTAG_PARA_TEXT =>
                           fVisited[k].body = fRecords[k].body
                ELSE fVisited[k].body = <<>>

\* the framer terminates
FramerTerminates == <>(fPc = "done")


(***************************************************************************)
(* Claims about the cache                                                  *)
(***************************************************************************)
BothKeys == kKeyA # NoKey /\ kKeyB # NoKey

\* C12: the key is a function of (bytes, type, options): equal arguments
\* give equal keys; with the options alike, different bytes or a different
\* type give a different key; and options that hold at least one option give
\* a key different from the key of the same bytes and type without options.
C12_CacheKeyStableAndSensitive ==
    BothKeys =>
        /\ kArgsA = kArgsB => kKeyA = kKeyB
        /\ ( /\ kArgsA.options = kArgsB.options
             /\ \/ kArgsA.content # kArgsB.content
                \/ kArgsA.extraction_type # kArgsB.extraction_type )
           => kKeyA # kKeyB
        /\ ( /\ kArgsA.content = kArgsB.content
             /\ kArgsA.extraction_type = kArgsB.extraction_type
             /\ kArgsA.options.items # {}
             /\ ~kArgsB.options.given )
           => kKeyA # kKeyB

\* the same bytes and type, once with an option and once without
C12_Witness ==
    /\ BothKeys
    /\ kArgsA.content = kArgsB.content
    /\ kArgsA.extraction_type = kArgsB.extraction_type
    /\ kArgsA.options.items # {}
    /\ ~kArgsB.options.given
    /\ kKeyA # kKeyB


BothTtls == tTtlA # NoTime /\ tTtlB # NoTime

\* C13 as stated: for every type and payload size the TTL is at least the
\* configured default and at most 86,400 seconds, and for a fixed type it
\* never decreases as the payload grows.
C13_TtlBetweenDefaultAndCap ==
    BothTtls =>
        /\ tTtlA >= tDefault
        /\ tTtlA <= MaxCacheTtl
        /\ tTtlA <= tTtlB

\* C13 amended: the TTL is at most 86,400 seconds; it is at least the
\* smaller of 86,400 and the configured default, except for type "text",
\* where it is at least the smaller of 86,400 and four fifths of the default
\* rounded down; and for a fixed type it never decreases as the payload grows.
C13_TtlBounds ==
    BothTtls =>
        /\ tTtlA <= MaxCacheTtl
        /\ tTtlB <= MaxCacheTtl
        /\ tType # "text" => tTtlA >= Min2(tDefault, MaxCacheTtl)
        /\ tType = "text" => tTtlA >= Min2((4 * tDefault) \div 5, MaxCacheTtl)
        /\ tTtlA <= tTtlB

\* a text payload under the default, and a larger payload living longer
C13_Witness ==
    /\ BothTtls
    /\ tType = "text"
    /\ tTtlA < tDefault
    /\ tSizeA < tSizeB
    /\ tTtlA < tTtlB


\* C14: with the cache disabled, the store unreachable at connect time or
\* failing during a later call, every CacheManager operation completes
\* without raising: get returns a miss, set and delete leave the store as it
\* was, and a failed connect leaves the manager disabled.
C14_CacheFailuresAreSilent ==
    /\ ~cLast.raised
    /\ cLast.degraded =>
          /\ cLast.op = "get" => cLast.result = Miss
          /\ cLast.op \in {"set", "delete"} => cLast.unchanged
          /\ cLast.op = "get_stats" => cLast.result \in {"disabled", "not_connected"}
          /\ cLast.op = "connect" => ~cEnabled
    /\ ~Usable(cEnabled, cClient) => cLast.unchanged

\* a get that found its entry in the store and lost it to a failing call,
\* after a connect that had succeeded
C14_Witness ==
    /\ cLast.op = "get"
    /\ cLast.degraded
    /\ cEnabled
    /\ cClient
    /\ \E k \in CacheKeys : cStore[k] # NoEntry
    /\ cLast.result = Miss


\* C15: when the cache holds a result for the request's bytes and
\* parameters, the wrapper returns that cached content without invoking the
\* wrapped extraction; the extraction runs only on a miss, and its
\* successful result is then written back.
C15_CacheHitSkipsExtraction ==
    wLast.impl # "none" =>
        /\ wLast.held => /\ wLast.invoked = 0
                         /\ wLast.returned = wLast.cached
                         /\ ~wLast.written
        /\ ~wLast.held => wLast.invoked = 1
        /\ wLast.written => /\ ~wLast.held
                            /\ wLast.outcome = "success"


(***************************************************************************)
(* Further claims about API keys                                           *)
(***************************************************************************)
\* the key of the request just answered has a row that is active, has not
\* expired and belongs to an active user
PresentedKeyValid ==
    /\ PresentedRow # NoRow
    /\ PresentedRow.is_active
    /\ ~IsExpired(PresentedRow, now)
    /\ users[PresentedRow.user_id]

ExpiredInactive(row, t) == row # NoRow /\ IsExpired(row, t) /\ ~row.is_active

\* C16: an activate request against a key whose expires_at is in the past
\* is answered 400 and leaves is_active as it was, and no step of the system
\* turns the row of an expired inactive key into an active one.
C16_ExpiredKeyCannotBeActivated ==
    /\ [](( /\ authResp # NoResp
            /\ authResp.req.kind = "activate"
            /\ IsExpired(PresentedRow, now) ) => authResp.status = 400)
    /\ [][\A k \in KeyStrings :
            (ExpiredInactive(keys[k], now) /\ keys'[k] # NoRow) => ~keys'[k].is_active]_vars

\* an expired, inactive key was asked to be activated, and refused
C16_Witness ==
    /\ authResp # NoResp
    /\ authResp.req.kind = "activate"
    /\ authResp.status = 400
    /\ ExpiredInactive(PresentedRow, now)

\* C17: a valid, active, unexpired key of an active user authenticates a
\* protected request whether it travels in "Authorization: Bearer" or in
\* "X-API-Key" with no Authorization header.
C17_EitherTransportAuthenticates ==
    ( /\ authResp # NoResp
      /\ authResp.req.kind \in Transports
      /\ PresentedKeyValid )
    => /\ authResp.status = 200
       /\ authResp.user = PresentedRow.user_id

\* C18: key authentication stamps last_used exactly when the request is
\* accepted: an accepted request stamps it with the current time, a rejected
\* one leaves it as it was.
C18_LastUsedStampedIffAccepted ==
    ( /\ authResp # NoResp
      /\ authResp.req.kind \in Transports \cup {"none"} )
    => /\ authResp.stamped <=> authResp.status = 200
       /\ authResp.status = 200 => PresentedRow.last_used = now


\* C19: wait_for_result ends as the status endpoint reports the task: a poll
\* that is told the task succeeded returns the result, a poll that is told it
\* failed raises, and TimeoutError is raised only when no poll was told of a
\* terminal state.
C19_WaitEndsAsServerReports ==
    /\ pStatus = "SUCCESS" => pOutcome = "returned"
    /\ pStatus = "FAILURE" => pOutcome = "raised"
    /\ pOutcome = "timeout" => pStatus \notin TerminalStates

\* C20: GET /async/result for a task in any non-terminal state answers 202
\* with a message: neither a result body nor a failure status.
C20_UnfinishedTaskAnswers202 ==
    rLast.state \in TaskStates \ TerminalStates
    => /\ rLast.code = 202
       /\ rLast.body \notin {"result", "Task failed"}


\* C21: whatever the input file and whatever its tiers meet, HWPConverter.convert
\* ends with a PDF written at the output path and a True result: it never
\* raises and never reports failure.
C21_ConvertAlwaysYieldsPdf ==
    (eLast.endpoint = "convert" /\ eLast.work_begun)
    => /\ eLast.conversion.returned
       /\ eLast.conversion.pdf
       /\ ~eLast.conversion.raised

\* C22: on each upload endpoint an upload with an allowed extension whose size
\* exceeds the configured maximum is answered 413, with no temporary file
\* written and no parsing or conversion begun.
C22_OversizeUploadAnswered413 ==
    (eLast.size > MAX_FILE_SIZE /\ eLast.cause # "extension")
    => /\ eLast.status = 413
       /\ ~eLast.temp_written
       /\ ~eLast.work_begun

\* C23: a request that fails because a parser, a library or the file system
\* raised is answered without the text of the exception in the body.
C23_UnexpectedFailureHidesExceptionText ==
    eLast.cause = "unexpected" => eLast.detail.exc = None


\* C24: the text of the envelope is the paragraph texts, each once, joined by
\* blank lines, followed when there are tables only by their rows as
\* pipe-joined lines.
C24_TextIsParagraphConcatenation ==
    xText # NotExtracted
    => xText = Join(BlankLine, FilterNone(xParsed.paragraphs \o RowLines(xParsed.tables)))


\* C25: the pipeline returns the empty text for every non-empty text without
\* any Hangul, and a non-empty text for every text whose Hangul characters
\* are at least half of its non-whitespace characters, whatever its length.
C25_HangulDecidesWhatIsKept ==
    nOnce # NotCleaned
    => LET korean_count == Count(nText, is_valid_korean_char)
           non_space == Count(nText, LAMBDA c : ~IsSpace(c))
       IN  /\ (nText # <<>> /\ korean_count = 0) => nOnce = <<>>
           /\ (non_space > 0 /\ 2 * korean_count >= non_space) => nOnce # <<>>

\* C26: the pipeline is idempotent: cleaning a cleaned text changes nothing.
C26_CleaningIsIdempotent ==
    nTwice # NotCleaned => nTwice = nOnce


\* C27: HWPXParser.parse raises whenever the file does not open as a ZIP
\* archive or has section parts of which every one fails to parse; it then
\* returns no result.
C27_UnreadableHwpxRaises ==
    ( /\ hResult # NotParsed
      /\ \/ ~hFile.is_zip
         \/ /\ hFile.sections # <<>>
            /\ \A i \in 1..Len(hFile.sections) : hFile.sections[i] = "parse_error" )
    => hResult.raised /\ ~hResult.returned


\* C28: the temporary file of an upload that was saved is removed only once
\* the streamed body has been produced to its last chunk or has failed, never
\* before the body starts to be produced.
C28_TempFileOutlivesStream ==
    (sFile = "removed" /\ sResp.saved) => sResp.body \in {"complete", "failed"}


\* C29: the chunks extract_chunked yields, put together in the order yielded,
\* are the text given: nothing lost, doubled or moved.
C29_ChunksConcatenateToInput ==
    chPc = "done" => Concat(chYielded) = chInput

====
